---- MODULE Spec2Model ----
(***************************************************************************)
(* The session / request layer and the client facade of the i-DE           *)
(* (ideenergy) and Global Omnium (globalomnium) clients.                   *)
(*                                                                         *)
(* One client object is shared by the callers in Procs.  A caller invokes  *)
(* a facade operation; the coroutine runs without interruption up to its   *)
(* next network request (asyncio suspends only there), and resumes when    *)
(* the server's response arrives.  The wall clock advances independently   *)
(* (Tick).  `log` and `last` are history variables: the events of each     *)
(* caller's current invocation, and a description of the step that led to  *)
(* the current state.  `offered` is the part of the facade the callers'    *)
(* program uses (the command line picks one action per run); `input` is    *)
(* the payload a parser is applied to.                                     *)
(***************************************************************************)
EXTENDS Integers, Sequences, FiniteSets, TLC

VARIABLES variant, auto_renew, timeout, callers, offered, input, login_ts, contract,
          now, stack, log, last

vars == <<variant, auto_renew, timeout, callers, offered, input, login_ts, contract,
          now, stack, log, last>>

config == <<variant, auto_renew, timeout, callers, offered, input>>

\* ------------------------------------------------------------------ bounds
\* the clock runs over 0..MaxTime
MaxTime == 3
\* configured session timeouts are 0..MaxTimeout (seconds)
MaxTimeout == 2
\* nested coroutine frames before the interpreter raises RecursionError
MaxDepth == 4

\* the start and end arguments of a historical query are 0..MaxPoint
MaxPoint == 1
\* a historical payload carries at most MaxEntries hourly entries
MaxEntries == 2
\* a power-demand payload carries at most MaxSamples samples
MaxSamples == 3

\* the concurrent callers of the one client object
Procs == {"a", "b"}

\* ------------------------------------------------------- values and config
\* self._login_ts = None
NoLogin == -1
\* contract=None in the constructor
NoContract == ""
ContractIds == {"c1", "c2"}

Variants == {"ideenergy", "globalomnium"}

\* python values of the JSON fields the code looks at
Absent == "absent"
PyTrue == "True"
PyFalse == "False"
PyNone == "None"
StrTrue == "'true'"
StrFalse == "'false'"
SentinelValues == {Absent, PyTrue, PyFalse, StrTrue, StrFalse}

\* bool(v) of a python value
Truthy(v) == v \notin {PyFalse, PyNone, "''"}

\* dict.get(key, default) on a field that may be absent
DictGet(v, default) == IF v = Absent THEN default ELSE v

Statuses == {200, 204, 500}
Reason(status) == CASE status = 200 -> "OK"
                    [] status = 204 -> "No Content"
                    [] OTHER -> "Internal Server Error"

\* an HTTP response: status line and decoded JSON body
\*   kind      "dict" (a JSON object) or "list" (any other JSON value)
\*   success   the provider's sentinel field ("success" / "result")
\*   has_list  whether the contract list field is present; items: its value
\*   expired   whether the body carries the expired-account sentinel
MkBody(kind, success, has_list, items, expired) ==
    [kind |-> kind, success |-> success, has_list |-> has_list,
     items |-> items, expired |-> expired]

NonDictBody == MkBody("list", Absent, FALSE, <<>>, FALSE)

LoginBodies ==
    {NonDictBody} \cup
    {MkBody("dict", s, FALSE, <<>>, e) : s \in SentinelValues, e \in BOOLEAN}

ContractsBodies ==
    {NonDictBody} \cup
    {MkBody("dict", s, FALSE, <<>>, FALSE) : s \in SentinelValues} \cup
    {MkBody("dict", s, TRUE, l, FALSE) : s \in SentinelValues, l \in {<<>>, <<"c2", "c1">>}}

SelectionBodies ==
    {NonDictBody} \cup
    {MkBody("dict", s, FALSE, <<>>, FALSE) : s \in SentinelValues}

\* ------------------------------------------------- python scalar values
\* a JSON field as python sees it: absent from the object, None, a str (its
\* characters) or an int
PyAbsent == [t |-> "absent"]
PyNull == [t |-> "None"]
PyStr(chars) == [t |-> "str", s |-> chars]
PyNum(n) == [t |-> "int", n |-> n]

Digits == <<"0", "1", "2", "3", "4", "5", "6", "7", "8", "9">>
IsDigit(c) == \E d \in 1..10 : Digits[d] = c
DigitValue(c) == (CHOOSE d \in 1..10 : Digits[d] = c) - 1

\* the characters after an optional sign
Unsigned(chars) ==
    IF chars # <<>> /\ chars[1] \in {"-", "+"} THEN Tail(chars) ELSE chars
Sign(chars) == IF chars # <<>> /\ chars[1] = "-" THEN -1 ELSE 1

RECURSIVE DecimalValue(_)
\* the number a run of digits denotes
DecimalValue(chars) ==
    IF chars = <<>> THEN 0
    ELSE 10 * DecimalValue(SubSeq(chars, 1, Len(chars) - 1))
         + DigitValue(chars[Len(chars)])

\* the text int() accepts: an optional sign and one or more digits
IsIntLiteral(chars) ==
    LET u == Unsigned(chars)
    IN  u # <<>> /\ \A i \in 1..Len(u) : IsDigit(u[i])

\* the text float() accepts: an optional sign, digits and at most one point
IsFloatLiteral(chars) ==
    LET u == Unsigned(chars)
    IN  /\ \E i \in 1..Len(u) : IsDigit(u[i])
        /\ \A i \in 1..Len(u) : IsDigit(u[i]) \/ u[i] = "."
        /\ Cardinality({i \in 1..Len(u) : u[i] = "."}) <= 1

\* a float is num * 10^-scale, with no trailing zero in the fraction
RECURSIVE MkFloat(_, _)
MkFloat(num, scale) ==
    IF scale > 0 /\ num % 10 = 0
    THEN MkFloat(num \div 10, scale - 1)
    ELSE [num |-> num, scale |-> scale]

SelectSeqDigits(chars) == SelectSeq(chars, IsDigit)

\* the digits after the point
FractionLen(chars) ==
    IF \E i \in 1..Len(chars) : chars[i] = "."
    THEN Len(chars) - (CHOOSE i \in 1..Len(chars) : chars[i] = ".")
    ELSE 0

Ok(value) == [exc |-> "", value |-> value]
Fails(exc) == [exc |-> exc, value |-> 0]

\* int(data[key])
PyInt(v) ==
    CASE v.t = "absent" -> Fails("KeyError")
      [] v.t = "None" -> Fails("TypeError")
      [] v.t = "int" -> Ok(v.n)
      [] OTHER -> IF IsIntLiteral(v.s)
                  THEN Ok(Sign(v.s) * DecimalValue(Unsigned(v.s)))
                  ELSE Fails("ValueError")

\* float(data[key])
PyFloat(v) ==
    CASE v.t = "absent" -> Fails("KeyError")
      [] v.t = "None" -> Fails("TypeError")
      [] v.t = "int" -> Ok(MkFloat(v.n, 0))
      [] OTHER -> IF IsFloatLiteral(v.s)
                  THEN Ok(MkFloat(Sign(v.s) * DecimalValue(SelectSeqDigits(v.s)),
                                  FractionLen(Unsigned(v.s))))
                  ELSE Fails("ValueError")

\* ------------------------------------------------------ measure payloads
\* the values of the counter and magnitude fields of a measure payload
MeasureFieldValues ==
    {PyAbsent, PyNull, PyNum(7), PyStr(<<"4", "2">>), PyStr(<<"1", ".", "5", "0">>),
     PyStr(<<"a">>)}

\* counter: valLecturaContador / Lectura; magnitude: valMagnitud / Consumo
MkMeasureBody(kind, counter, magnitude) ==
    [kind |-> kind, counter |-> counter, magnitude |-> magnitude]

MeasureBodies ==
    {MkMeasureBody("list", PyAbsent, PyAbsent)} \cup
    {MkMeasureBody("dict", c, g) : c \in MeasureFieldValues, g \in MeasureFieldValues}

\* the answers to the ICP status request
IcpBodies ==
    {[kind |-> "list", icp |-> Absent]} \cup
    {[kind |-> "dict", icp |-> v] :
        v \in {Absent, "trueConectado", "trueconectado", "falseDesconectado", ""}}

\* ---------------------------------------------------- historical payloads
SeqsUpTo(S, n) == UNION {[1..k -> S] : k \in 0..n}

\* an hourly entry of data["y"]["data"][0]: null, or an object
EntryNone == [t |-> "None"]
Entry(valor) == [t |-> "dict", valor |-> valor]

EntryValues ==
    {EntryNone, Entry(PyStr(<<"1", ".", "5", "0">>)), Entry(PyStr(<<"0", ".", "0">>)),
     Entry(PyStr(<<"a">>)), Entry(PyAbsent)}

\* kind "dict" (a JSON object) or "list"; has_y: data["y"]["data"][0] exists
MkHistoricalBody(kind, has_y, entries, acumulado, acumuladoCO2) ==
    [kind |-> kind, has_y |-> has_y, entries |-> entries,
     acumulado |-> acumulado, acumuladoCO2 |-> acumuladoCO2]

\* datetimes count hours; a date is a day of HoursPerDay hours
HoursPerDay == 24

HistoricalBodies ==
    {MkHistoricalBody("list", FALSE, <<>>, PyAbsent, PyAbsent),
     \* one hour more than a day of entries
     MkHistoricalBody("dict", TRUE,
                      [i \in 1..(HoursPerDay + 1) |-> Entry(PyStr(<<"0", ".", "0">>))],
                      PyNum(7), PyNum(7)),
     MkHistoricalBody("dict", FALSE, <<>>, PyNum(7), PyNum(7)),
     MkHistoricalBody("dict", TRUE, <<>>, PyAbsent, PyNum(7)),
     MkHistoricalBody("dict", TRUE, <<>>, PyNum(7), PyNull),
     MkHistoricalBody("dict", TRUE, <<>>, PyStr(<<"a">>), PyNum(7)),
     MkHistoricalBody("dict", TRUE, <<>>, PyNum(7), PyStr(<<"a">>))} \cup
    {MkHistoricalBody("dict", TRUE, e, PyNum(7), PyNum(7)) :
        e \in SeqsUpTo(EntryValues, MaxEntries)}

\* a response that json.loads rejects
NotJson == MkHistoricalBody("notjson", FALSE, <<>>, PyAbsent, PyAbsent)

\* a str that holds a date in the format its parser expects: the day and
\* the time of day it names
DateStr(day, hour) == [t |-> "datestr", day |-> day, hour |-> hour]

\* generation payloads: fechaPeriodo (two dates, text that is no date, no
\* field) and the hourly entries
MkGenerationBody(kind, fechaPeriodo, has_y, entries) ==
    [kind |-> kind, fechaPeriodo |-> fechaPeriodo, has_y |-> has_y, entries |-> entries]

GenerationBodies ==
    {MkGenerationBody("list", PyAbsent, FALSE, <<>>),
     MkGenerationBody("dict", DateStr(0, 0), FALSE, <<>>)} \cup
    {MkGenerationBody("dict", f, TRUE, e) :
        f \in {DateStr(0, 0), DateStr(1, 1), PyStr(<<"a">>), PyAbsent},
        e \in SeqsUpTo(EntryValues, MaxEntries)}

\* the breakdown of hour i (or of the total, i = 0) over width periods
Breakdown(i, width) == [j \in 1..width |-> 10 * i + j]

\* consumption payloads: data[0] of a JSON array
MkConsumptionBody(kind, fechaDesde, periodos, total, width, valores, rows) ==
    [kind |-> kind, fechaDesde |-> fechaDesde, periodos |-> periodos, total |-> total,
     totales |-> Breakdown(0, width), valores |-> valores,
     valoresPT |-> [i \in 1..rows |-> Breakdown(i, width)]]

ConsumptionBodies ==
    {MkConsumptionBody("dict", DateStr(0, 0), <<"P1">>, 7, 1, <<>>, 0)} \cup
    {MkConsumptionBody("list", f, n, t, w, v, r) :
        f \in {DateStr(0, 0), DateStr(1, 0), PyStr(<<"a">>), PyAbsent},
        n \in {<<"P1">>, <<"P1", "P2">>, <<"P1", "P1">>}, t \in {0, 7}, w \in 0..2,
        v \in SeqsUpTo({0, 5}, MaxEntries), r \in 0..MaxEntries}

\* a power-demand sample
MkItem(name, y) == [name |-> name, y |-> y]

Items == {MkItem(DateStr(0, h), y) : h \in {0, 1}, y \in {1, 2}}

\* power-demand payloads: potMaxMens is a list of monthly lists
MkPowerDemandBody(kind, has_pot, potMaxMens) ==
    [kind |-> kind, has_pot |-> has_pot, potMaxMens |-> potMaxMens]

PotMaxMens ==
    {<<>>, <<<<MkItem(PyStr(<<"a">>), 1)>>>>} \cup
    {<<samples>> : samples \in SeqsUpTo(Items, MaxSamples)} \cup
    UNION {{<<SubSeq(samples, 1, cut), SubSeq(samples, cut + 1, Len(samples))>> :
               cut \in 0..Len(samples)} : samples \in SeqsUpTo(Items, MaxSamples)}

PowerDemandBodies ==
    {MkPowerDemandBody("list", FALSE, <<>>), MkPowerDemandBody("dict", FALSE, <<>>)} \cup
    {MkPowerDemandBody("dict", TRUE, l) : l \in PotMaxMens}

HistoricalOperations ==
    {"get_historical_data", "get_historical_consumption", "_get_historical_generic_data"}

\* the answers to the power demand limits lookup: fecMin and fecMax are
\* opaque strings that go into the next URL as they come
LimitsBodies ==
    {[kind |-> "dict", resultado |-> r, fecMin |-> a, fecMax |-> b] :
        r \in {"correcto", "error", Absent},
        a \in {"01-03-202100:00:00", "01-10-202400:00:00"},
        b \in {"30-11-202523:00:00"}}

\* get_historical_power_demand before it knows the limits
NoLimits == [fecMin |-> "", fecMax |-> ""]

BodiesFor(fn) == CASE fn = "login" -> LoginBodies
                   [] fn = "power_demand_limits" -> LimitsBodies
                   [] fn = "get_historical_power_demand" -> PowerDemandBodies
                   [] fn = "get_contracts" -> ContractsBodies
                   [] fn = "get_measure" -> MeasureBodies
                   [] fn = "is_icp_ready" -> IcpBodies
                   [] fn = "get_historical_data" -> HistoricalBodies \cup {NotJson}
                   [] fn \in HistoricalOperations -> HistoricalBodies
                   [] OTHER -> SelectionBodies

\* the body of an error response is never read: one stands for all
ResponseBodies(status, fn) ==
    IF status = 200 THEN BodiesFor(fn) ELSE {NonDictBody}

MkResponse(status, body) ==
    [status |-> status, reason |-> Reason(status), body |-> body]

\* ------------------------------------------------------- historical range
Max(S) == CHOOSE x \in S : \A y \in S : y <= x

Min2(a, b) == IF a <= b THEN a ELSE b
Max2(a, b) == IF a >= b THEN a ELSE b

\* start = min([start, end])
RangeStart(start, end) == Min2(start, end)

\* end = max([start, end]), evaluated after start was reassigned
RangeEnd(start, end) == Max2(RangeStart(start, end), end)

\* HistoricalRequest members, and a value that is none of them
RequestTypes == {"CONSUMPTION", "GENERATION"}

\* the point t as strftime / format() print it (days of one month)
Pad2(n) == IF n < 10 THEN "0" \o ToString(n) ELSE ToString(n)
Strftime(t) == Pad2(t + 1) \o "-08-2022"

FormatRange(start, end, sep) == Strftime(start) \o sep \o Strftime(end)

\* ------------------------------------------------------------- endpoints
\* a URL is <<endpoint, suffix>>
PowerDemandPeriodEndpoint(data) ==
    <<"_POWER_DEMAND_PERIOD_ENDPOINT", data.fecMin \o "/" \o data.fecMax>>

Endpoint(fn, arg) ==
    CASE fn = "login" -> <<"_LOGIN_ENDPOINT", "">>
      [] fn = "get_contracts" -> <<"_CONTRACTS_ENDPOINT", "">>
      [] fn = "select_contract" -> <<"_CONTRACT_SELECTION_ENDPOINT", arg>>
      [] fn = "get_measure" -> <<"_MEASURE_ENDPOINT", "">>
      [] fn = "is_icp_ready" -> <<"_ICP_STATUS_ENDPOINT", "">>
      [] fn = "get_historical_data" ->
            <<IF arg.req_type = "CONSUMPTION" THEN "_CONSUMPTION_PERIOD_ENDPOINT"
                                               ELSE "_GENERATION_PERIOD_ENDPOINT",
              FormatRange(RangeStart(arg.start, arg.end),
                          RangeEnd(arg.start, arg.end), "/")>>
      [] fn = "_get_historical_generic_data" ->
            <<"_CONSUMPTION_PERIOD_ENDPOINT",
              FormatRange(RangeStart(arg.start, arg.end),
                          RangeEnd(arg.start, arg.end), "&")>>
      [] fn = "get_historical_consumption" -> <<"_CONSUMPTION_PERIOD_ENDPOINT", "">>
      [] fn = "get_historical_power_demand" ->
            IF arg = NoLimits THEN <<"_POWER_DEMAND_LIMITS_ENDPOINT", "">>
                              ELSE PowerDemandPeriodEndpoint(arg)
      [] OTHER -> <<"", "">>

Method(fn) == IF fn \in {"login", "is_icp_ready"} THEN "POST" ELSE "GET"

\* the data= argument of the request
RequestData(fn, arg) ==
    IF fn = "get_historical_consumption"
    THEN FormatRange(RangeStart(arg.start, arg.end), RangeEnd(arg.start, arg.end), "&")
    ELSE ""

\* the operations a caller can invoke on each variant's Client
Operations(v) ==
    IF v = "ideenergy"
    THEN {"login", "get_contracts", "select_contract", "get_measure",
          "get_historical_data", "get_historical_power_demand", "is_icp_ready"}
    ELSE {"login", "get_contracts", "get_measure",
          "get_historical_consumption", "_get_historical_generic_data"}

HistoricalArgs(types) ==
    {[req_type |-> r, start |-> s, end |-> e] :
        r \in types, s \in 0..MaxPoint, e \in 0..MaxPoint}

ArgsOf(fn) ==
    CASE fn = "select_contract" -> ContractIds
      [] fn = "get_historical_data" -> HistoricalArgs(RequestTypes \cup {"OTHER"})
      [] fn \in HistoricalOperations -> HistoricalArgs({"CONSUMPTION"})
      [] fn = "get_historical_power_demand" -> {NoLimits}
      [] OTHER -> {NoContract}

\* ------------------------------------------------------------ session
IsLoggedInclusive(ts, t, tmo) ==
    IF ts = NoLogin THEN FALSE ELSE (t - ts) <= tmo

\* Client.is_logged, evaluated at clock value t
IsLogged(ts, t, tmo) ==
    IF ts = NoLogin THEN FALSE ELSE (t - ts) < tmo

\* ------------------------------------------------------------ history
\* ev is "wrap" (auth_required entered; flag: is_logged as it read it),
\* "req" (a request sent), "login_ts" (login() recorded its timestamp; arg:
\* self._contract as login() then read it) or "login_ret" (login() returned);
\* depth is the frame's depth in the coroutine, at the clock value that
\* login() stored
MkEvent(ev, fn, arg, depth, flag) ==
    [ev |-> ev, fn |-> fn, arg |-> arg, depth |-> depth, flag |-> flag,
     at |-> IF ev = "login_ts" THEN now ELSE 0,
     method |-> IF ev = "req" THEN Method(fn) ELSE "",
     url |-> IF ev = "req" THEN Endpoint(fn, arg) ELSE <<"", "">>,
     data |-> IF ev = "req" THEN RequestData(fn, arg) ELSE ""]

NoOut == [kind |-> "none", exc |-> "", data |-> ""]

\* ------------------------------------------------------------ coroutines
\* A machine is one caller's coroutine together with the client fields it
\* can write: [stack, log, ts, contract, done, out].
\* A frame is [fn, arg, at]; arg holds the arguments of fn, and the limits
\* that get_historical_power_demand has read; at is the await the frame is
\* suspended in:
\*   "login"   auth_required's wrapper awaiting client.login()
\*   "request" the function awaiting its own HTTP request
\*   "select"  login() awaiting self.select_contract(...)
MkFrame(fn, arg, at) == [fn |-> fn, arg |-> arg, at |-> at]

Push(m, frame) == [m EXCEPT !.stack = Append(@, frame)]
Pop(m) == [m EXCEPT !.stack = SubSeq(@, 1, Len(@) - 1)]
Top(m) == m.stack[Len(m.stack)]
SetAt(m, at) == [m EXCEPT !.stack[Len(m.stack)].at = at]
Record(m, e) == [m EXCEPT !.log = Append(@, e)]

RaiseLoggingOut(m, exc, data) ==
    [m EXCEPT !.stack = <<>>, !.done = TRUE, !.ts = NoLogin,
              !.out = [kind |-> "raise", exc |-> exc, data |-> data]]

\* an exception leaves every frame of the coroutine: nothing catches it
Raise(m, exc, data) ==
    [m EXCEPT !.stack = <<>>, !.done = TRUE,
              !.out = [kind |-> "raise", exc |-> exc, data |-> data]]

\* the top frame sends its own request and suspends
SendRequest(m) ==
    LET f == Top(m)
    IN  Record(SetAt(m, "request"),
               MkEvent("req", f.fn, f.arg, Len(m.stack), FALSE))

\* the wrapped function runs up to its request; get_historical_data first
\* looks its request type up
EnterFunction(m) ==
    LET f == Top(m)
    IN  IF f.fn = "get_historical_data" /\ f.arg.req_type \notin RequestTypes
        THEN Raise(m, "ValueError", f.arg.req_type)
        ELSE SendRequest(m)

\* await client.login(): a new frame, the login POST is sent
CallLogin(m) ==
    IF Len(m.stack) >= MaxDepth
    THEN Raise(m, "RecursionError", "")
    ELSE SendRequest(Push(m, MkFrame("login", NoContract, "request")))

AuthRequiredSingleFlight(m, fn, arg) ==
    LET logged == IsLogged(m.ts, now, timeout)
        m1 == Record(Push(m, MkFrame(fn, arg, "login")),
                     MkEvent("wrap", fn, arg, Len(m.stack) + 1, logged))
        pending == \E q \in Procs : /\ stack[q] # <<>>
                                     /\ stack[q] # m.stack
                                     /\ stack[q][Len(stack[q])].fn = "login"
    IN  IF auto_renew = TRUE /\ logged = FALSE /\ ~pending
        THEN CallLogin(m1)
        ELSE EnterFunction(m1)

AuthRequiredIgnoringAutoRenew(m, fn, arg) ==
    IF Len(m.stack) >= MaxDepth
    THEN Raise(m, "RecursionError", "")
    ELSE LET logged == IsLogged(m.ts, now, timeout)
             m1 == Record(Push(m, MkFrame(fn, arg, "login")),
                          MkEvent("wrap", fn, arg, Len(m.stack) + 1, logged))
         IN  IF logged = FALSE
             THEN CallLogin(m1)
             ELSE EnterFunction(m1)

\* auth_required._wrap around fn
AuthRequired(m, fn, arg) ==
    IF Len(m.stack) >= MaxDepth
    THEN Raise(m, "RecursionError", "")
    ELSE LET logged == IsLogged(m.ts, now, timeout)
             m1 == Record(Push(m, MkFrame(fn, arg, "login")),
                          MkEvent("wrap", fn, arg, Len(m.stack) + 1, logged))
         IN  IF auto_renew = TRUE /\ logged = FALSE
             THEN CallLogin(m1)
             ELSE EnterFunction(m1)

\* login() returns None to its caller
ReturnFromLogin(m) ==
    LET m1 == Pop(Record(m, MkEvent("login_ret", "login", NoContract,
                                    Len(m.stack), FALSE)))
    IN  IF m1.stack = <<>>
        THEN [m1 EXCEPT !.done = TRUE,
                        !.out = [kind |-> "return", exc |-> "", data |-> PyNone]]
        ELSE EnterFunction(m1)

\* a wrapped operation returns value to its caller
ReturnFromOperation(m, value) ==
    LET m1 == Pop(m)
    IN  IF m1.stack = <<>>
        THEN [m1 EXCEPT !.done = TRUE,
                        !.out = [kind |-> "return", exc |-> "", data |-> value]]
        ELSE ReturnFromLogin(m1)

StatusAcceptedAnySuccess(status) == status < 300

\* Client.raw_request / Client._request: the status check
StatusAccepted(status) == status = 200

\* what the login code tests: ideenergy decodes the body (Client.request),
\* globalomnium keeps the aiohttp response object (Client._request)
LoginData(v, resp) ==
    IF v = "ideenergy"
    THEN resp.body
    ELSE [resp.body EXCEPT !.kind = "ClientResponse"]

LoginSentinel(v) == IF v = "ideenergy" THEN StrTrue ELSE PyTrue

LoginNeverSelectsContract(v, c) == FALSE

\* login() calls select_contract only in the ideenergy client
LoginSelectsContract(v, c) == v = "ideenergy" /\ c # NoContract

LoginResponseNoTimestamp(m, resp) ==
    LET data == LoginData(variant, resp)
    IN  IF data.kind # "dict"
        THEN Raise(m, "InvalidData", data)
        ELSE IF DictGet(data.success, StrFalse) # LoginSentinel(variant)
        THEN Raise(m, "CommandError", data)
        ELSE LET m1 == Record(m, MkEvent("login_ts", "login", m.contract,
                                         Len(m.stack), FALSE))
             IN  IF LoginSelectsContract(variant, m1.contract)
                 THEN AuthRequired(SetAt(m1, "select"), "select_contract", m1.contract)
                 ELSE ReturnFromLogin(m1)

\* Client.login after its request
LoginResponse(m, resp) ==
    LET data == LoginData(variant, resp)
    IN  IF data.kind # "dict"
        THEN Raise(m, "InvalidData", data)
        ELSE IF DictGet(data.success, StrFalse) # LoginSentinel(variant)
        THEN Raise(m, "CommandError", data)
        ELSE LET m1 == Record([m EXCEPT !.ts = now],
                              MkEvent("login_ts", "login", m.contract,
                                      Len(m.stack), FALSE))
             IN  IF LoginSelectsContract(variant, m1.contract)
                 THEN AuthRequired(SetAt(m1, "select"), "select_contract", m1.contract)
                 ELSE ReturnFromLogin(m1)

\* what get_contracts returns on success
ContractsResult(v, data) ==
    IF v = "ideenergy" THEN [kind |-> "list", items |-> data.items] ELSE data

\* data["contratos"] raises KeyError; globalomnium returns data itself
ContractsKeyError(v, data) == v = "ideenergy" /\ ~data.has_list

\* Client.get_contracts after its request
ContractsResponse(m, resp) ==
    LET data == resp.body
    IN  IF data.kind # "dict"
        THEN Raise(m, "AttributeError", data)
        ELSE IF ~Truthy(DictGet(data.success, PyFalse))
        THEN Raise(m, "CommandError", data)
        ELSE IF ContractsKeyError(variant, data)
        THEN Raise(m, "InvalidData", data)
        ELSE ReturnFromOperation(m, ContractsResult(variant, data))

SelectionResponseEager(m, resp) ==
    LET data == resp.body
        id == Top(m).arg
    IN  IF data.kind # "dict"
        THEN Raise(m, "AttributeError", data)
        ELSE IF ~Truthy(DictGet(data.success, PyFalse))
        THEN Raise([m EXCEPT !.contract = id], "InvalidContractError", id)
        ELSE ReturnFromOperation([m EXCEPT !.contract = id], PyNone)

\* Client.select_contract after its request
SelectionResponse(m, resp) ==
    LET data == resp.body
        id == Top(m).arg
    IN  IF data.kind # "dict"
        THEN Raise(m, "AttributeError", data)
        ELSE IF ~Truthy(DictGet(data.success, PyFalse))
        THEN Raise(m, "InvalidContractError", id)
        ELSE ReturnFromOperation([m EXCEPT !.contract = id], PyNone)

\* what get_measure reads: ideenergy decodes the body (Client.request),
\* globalomnium keeps the aiohttp response object (Client._request)
MeasureData(v, resp) ==
    IF v = "ideenergy"
    THEN resp.body
    ELSE [resp.body EXCEPT !.kind = "ClientResponse"]

Measure(accumulate, instant) ==
    [kind |-> "Measure", accumulate |-> accumulate, instant |-> instant]

\* the except clause of get_measure
MeasureCaught(exc) == exc \in {"KeyError", "ValueError"}

\* Client.get_measure after its request; subscripting anything but a dict
\* with a str raises TypeError
MeasureResponse(m, resp) ==
    LET data == MeasureData(variant, resp)
        accumulate == PyInt(data.counter)
        instant == PyFloat(data.magnitude)
        exc == IF accumulate.exc # "" THEN accumulate.exc ELSE instant.exc
    IN  IF data.kind # "dict"
        THEN Raise(m, "TypeError", data)
        ELSE IF exc = ""
        THEN ReturnFromOperation(m, Measure(accumulate.value, instant.value))
        ELSE IF MeasureCaught(exc)
        THEN Raise(m, "InvalidData", data)
        ELSE Raise(m, exc, data)

\* Client.is_icp_ready after its request: dict.get never raises KeyError,
\* and a list has no get
IcpResponse(m, resp) ==
    LET data == resp.body
    IN  IF data.kind # "dict"
        THEN Raise(m, "AttributeError", data)
        ELSE ReturnFromOperation(m, DictGet(data.icp, "") = "trueConectado")

\* ------------------------------------------------------ historical data
\* datetime.datetime(start.year, start.month, start.day) of a date
DayStart(date) == date * HoursPerDay

\* the same of a datetime
Midnight(dt) == (dt \div HoursPerDay) * HoursPerDay

IsNotNone(x) == x.t # "None"

\* the first exception a sequence of evaluations raises, "" if none does
RECURSIVE FirstExc(_)
FirstExc(results) ==
    IF results = <<>> THEN ""
    ELSE IF Head(results).exc # "" THEN Head(results).exc
    ELSE FirstExc(Tail(results))

\* get_historical_data._historical_parser; base comes from the normalised
\* start, None entries are dropped before the hours are counted
HistoricalParser(data, start) ==
    LET base == DayStart(start)
        historical == SelectSeq(data.entries, IsNotNone)
        \* x.get("valor", None)
        Valor(x) == IF x.valor.t = "absent" THEN PyNull ELSE x.valor
        \* float(x) if x is not None else x
        FloatOrNone(x) == IF x.t = "None" THEN Ok(PyNull) ELSE PyFloat(x)
        values == [i \in 1..Len(historical) |-> FloatOrNone(Valor(historical[i]))]
        totals == <<PyFloat(data.acumulado), PyFloat(data.acumuladoCO2)>>
        exc == FirstExc(values \o totals)
    IN  IF ~data.has_y THEN Fails("KeyError")
        ELSE IF exc # "" THEN Fails(exc)
        ELSE Ok([kind |-> "historical",
                 accumulated |-> totals[1].value,
                 accumulated_co2 |-> totals[2].value,
                 historical |-> [i \in 1..Len(historical) |->
                                   <<base + (i - 1), values[i].value>>]])

\* except (TypeError, json.JSONDecodeError)
HistoricalCaught(exc) == exc \in {"TypeError", "JSONDecodeError"}

\* Client.get_historical_data after its request
HistoricalDataResponse(m, resp) ==
    LET arg == Top(m).arg
        data == resp.body
        ret == HistoricalParser(data, RangeStart(arg.start, arg.end))
        exc == IF data = NotJson THEN "JSONDecodeError"
               ELSE IF data.kind # "dict" THEN "TypeError"
               ELSE ret.exc
    IN  IF exc = "" THEN ReturnFromOperation(m, ret.value)
        ELSE IF HistoricalCaught(exc) THEN Raise(m, "InvalidData", data)
        ELSE Raise(m, exc, data)

\* globalomnium parsers._normalize_historical_item: the value of an entry
\* that cannot be converted is None
GoNormalizeValue(item) ==
    LET v == IF item.t = "None" THEN Fails("TypeError") ELSE PyFloat(item.valor)
    IN  IF v.exc = "" THEN v.value ELSE PyNull

\* globalomnium parsers.parser_generic_historical_data: None entries are
\* dropped after the hours are counted
GoParserGenericHistoricalData(data, base_dt) ==
    LET entries == data.entries
        all == [i \in 1..Len(entries) |->
                  [start |-> base_dt + (i - 1), end |-> base_dt + (i - 1) + 1,
                   value |-> GoNormalizeValue(entries[i]), none |-> ~IsNotNone(entries[i])]]
        kept == SelectSeq(all, LAMBDA x : ~x.none)
        accumulated == PyFloat(data.acumulado)
    IN  IF data.kind # "dict" THEN Fails("TypeError")
        ELSE IF ~data.has_y THEN Fails("KeyError")
        ELSE IF accumulated.exc # "" THEN Fails(accumulated.exc)
        ELSE Ok([kind |-> "historical",
                 accumulated |-> accumulated.value,
                 historical |-> [i \in 1..Len(kept) |->
                                   [start |-> kept[i].start, end |-> kept[i].end,
                                    value |-> kept[i].value]]])

\* globalomnium Client._get_historical_generic_data after its request
GoGenericResponse(m, resp) ==
    LET arg == Top(m).arg
        ret == GoParserGenericHistoricalData(
                   resp.body, Midnight(RangeStart(arg.start, arg.end)))
    IN  IF ret.exc = "" THEN ReturnFromOperation(m, ret.value)
        ELSE Raise(m, ret.exc, resp.body)

\* globalomnium parsers.parse_historical_consumption: its first statement
\* reads the name `table`, which nothing binds
GoParseHistoricalConsumption(data) == Fails("NameError")

\* [x for x in ret.consumptions if x.start >= start and x.end < end]
GoConsumptionsInRange(consumptions, start, end) ==
    SelectSeq(consumptions, LAMBDA x : x.start >= start /\ x.end < end)

\* globalomnium Client._get_historical_consumption after its request
GoConsumptionResponse(m, resp) ==
    LET arg == Top(m).arg
        start == RangeStart(arg.start, arg.end)
        end == RangeEnd(arg.start, arg.end)
        ret == GoParseHistoricalConsumption(resp.body)
    IN  IF ret.exc # "" THEN Raise(m, ret.exc, resp.body)
        ELSE ReturnFromOperation(m,
                 [ret.value EXCEPT
                    !.consumptions = GoConsumptionsInRange(@, start, end)])

\* ------------------------------------------------- ideenergy/parsers.py
\* datetime.strptime(data[key], format)
Strptime(v) ==
    CASE v.t = "absent" -> Fails("KeyError")
      [] v.t = "datestr" -> Ok(DayStart(v.day) + v.hour)
      [] v.t = "str" -> Fails("ValueError")
      [] OTHER -> Fails("TypeError")

\* .replace(hour=0, minute=0, second=0)
ReplaceMidnight(dt) == Midnight(dt)

PeriodValue(start, end, value) == [start |-> start, end |-> end, value |-> value]

NormalizeHistoricalItemNoEnd(idx, item, base_dt) ==
    LET start == base_dt + idx
        value == IF item.t = "None" THEN Fails("TypeError") ELSE PyFloat(item.valor)
    IN  IF value.exc # "" THEN Fails(value.exc)
        ELSE Ok(PeriodValue(start, start, value.value))

\* parser_generic_historical_data._normalize_historical_item: None for a
\* None item and for one whose valor is missing or not a number
NormalizeHistoricalItem(idx, item, base_dt) ==
    LET start == base_dt + idx
        value == IF item.t = "None" THEN Fails("TypeError") ELSE PyFloat(item.valor)
    IN  IF value.exc # "" THEN Fails(value.exc)
        ELSE Ok(PeriodValue(start, start + 1, value.value))

ParserGenericHistoricalDataFromOne(data, base_dt) ==
    LET items == data.entries
        all == [i \in 1..Len(items) |-> NormalizeHistoricalItem(i, items[i], base_dt)]
        kept == SelectSeq(all, LAMBDA x : x.exc = "")
    IN  IF data.kind # "dict" THEN Fails("TypeError")
        ELSE IF ~data.has_y THEN Fails("KeyError")
        ELSE Ok([historical |-> [i \in 1..Len(kept) |-> kept[i].value]])

\* parser_generic_historical_data: enumerate() counts the hours from 0
ParserGenericHistoricalData(data, base_dt) ==
    LET items == data.entries
        all == [i \in 1..Len(items) |->
                  NormalizeHistoricalItem(i - 1, items[i], base_dt)]
        kept == SelectSeq(all, LAMBDA x : x.exc = "")
    IN  IF data.kind # "dict" THEN Fails("TypeError")
        ELSE IF ~data.has_y THEN Fails("KeyError")
        ELSE Ok([historical |-> [i \in 1..Len(kept) |-> kept[i].value]])

\* parse_historical_generation
ParseHistoricalGeneration(data) ==
    LET start == IF data.kind # "dict" THEN Fails("TypeError")
                 ELSE Strptime(data.fechaPeriodo)
        parsed == ParserGenericHistoricalData(data, ReplaceMidnight(start.value))
    IN  IF start.exc # "" THEN Fails(start.exc)
        ELSE IF parsed.exc # "" THEN Fails(parsed.exc)
        ELSE Ok([kind |-> "HistoricalGeneration", periods |-> parsed.value.historical])

\* parse_historical_consumption.list_to_dict: a later value replaces an
\* earlier one under the same key
ListToDict(values, keys) ==
    IF Len(values) > Len(keys) THEN Fails("IndexError")
    ELSE Ok([k \in {keys[i] : i \in 1..Len(values)} |->
                values[Max({i \in 1..Len(values) : keys[i] = k})]])

ConsumptionForPeriodShifted(data, start, idx) ==
    LET desglosed == IF idx + 1 > Len(data.valoresPT) THEN Fails("IndexError")
                     ELSE ListToDict(data.valoresPT[idx + 1], data.periodos)
    IN  IF desglosed.exc # "" THEN desglosed
        ELSE Ok([start |-> start + idx + 1, end |-> start + idx + 2,
                 value |-> data.valores[idx + 1], desglosed |-> desglosed.value])

\* the ConsumptionForPeriod that parse_historical_consumption appends for
\* idx (counted from 0)
ConsumptionForPeriod(data, start, idx) ==
    LET desglosed == IF idx + 1 > Len(data.valoresPT) THEN Fails("IndexError")
                     ELSE ListToDict(data.valoresPT[idx + 1], data.periodos)
    IN  IF desglosed.exc # "" THEN desglosed
        ELSE Ok([start |-> start + idx, end |-> start + idx + 1,
                 value |-> data.valores[idx + 1], desglosed |-> desglosed.value])

\* parse_historical_consumption; data[0] is read from a JSON array
ParseHistoricalConsumption(data) ==
    LET start == IF data.kind # "list" THEN Fails("KeyError")
                 ELSE Strptime(data.fechaDesde)
        base == ReplaceMidnight(start.value)
        totals == ListToDict(data.totales, data.periodos)
        periods == [i \in 1..Len(data.valores) |-> ConsumptionForPeriod(data, base, i - 1)]
        exc == FirstExc(<<start, totals>> \o periods)
    IN  IF exc # "" THEN Fails(exc)
        ELSE Ok([kind |-> "HistoricalConsumption",
                 periods |-> [i \in 1..Len(periods) |-> periods[i].value],
                 total |-> data.total,
                 desglosed |-> totals.value])

\* itertools.chain.from_iterable
RECURSIVE Chain(_)
Chain(lists) == IF lists = <<>> THEN <<>> ELSE Head(lists) \o Chain(Tail(lists))

\* parse_historical_power_demand_data._normalize_item
NormalizeItem(item) ==
    LET dt == Strptime(item.name)
    IN  IF dt.exc # "" THEN dt ELSE Ok([dt |-> dt.value, value |-> item.y])

InsertBefore(sorted, x) ==
    LET before == {i \in 1..Len(sorted) : sorted[i].dt < x.dt}
        n == IF before = {} THEN 0 ELSE Max(before)
    IN  SubSeq(sorted, 1, n) \o <<x>> \o SubSeq(sorted, n + 1, Len(sorted))

\* where sorted() puts x among the elements that came before it: after
\* every element whose key is not greater
Insert(sorted, x) ==
    LET before == {i \in 1..Len(sorted) : sorted[i].dt <= x.dt}
        n == IF before = {} THEN 0 ELSE Max(before)
    IN  SubSeq(sorted, 1, n) \o <<x>> \o SubSeq(sorted, n + 1, Len(sorted))

RECURSIVE SortedByDt(_)
\* sorted(demands, key=lambda x: x.dt)
SortedByDt(demands) ==
    IF demands = <<>> THEN <<>>
    ELSE Insert(SortedByDt(SubSeq(demands, 1, Len(demands) - 1)),
                demands[Len(demands)])

\* parse_historical_power_demand_data
ParseHistoricalPowerDemandData(data) ==
    LET potMaxMens == Chain(data.potMaxMens)
        demands == [i \in 1..Len(potMaxMens) |-> NormalizeItem(potMaxMens[i])]
        exc == FirstExc(demands)
    IN  IF data.kind # "dict" THEN Fails("TypeError")
        ELSE IF ~data.has_pot THEN Fails("KeyError")
        ELSE IF exc # "" THEN Fails(exc)
        ELSE Ok([kind |-> "HistoricalPowerDemand",
                 demands |-> SortedByDt([i \in 1..Len(demands) |-> demands[i].value])])

\* the request a frame is suspended in
Awaited(frame) ==
    IF frame.fn = "get_historical_power_demand" /\ frame.arg = NoLimits
    THEN "power_demand_limits"
    ELSE frame.fn

PowerDemandLimitsResponseUnchecked(m, resp) ==
    SendRequest([m EXCEPT !.stack[Len(m.stack)].arg =
                    [fecMin |-> resp.body.fecMin, fecMax |-> resp.body.fecMax]])

\* get_historical_power_demand after the limits lookup: the samples are
\* requested for the range that the server gave
PowerDemandLimitsResponse(m, resp) ==
    IF DictGet(resp.body.resultado, "") # "correcto"
    THEN Raise(m, "CommandError", resp.body)
    ELSE SendRequest([m EXCEPT !.stack[Len(m.stack)].arg =
                         [fecMin |-> resp.body.fecMin, fecMax |-> resp.body.fecMax]])

\* get_historical_power_demand after either of its requests
PowerDemandResponse(m, resp) ==
    IF Awaited(Top(m)) = "power_demand_limits"
    THEN PowerDemandLimitsResponse(m, resp)
    ELSE LET ret == ParseHistoricalPowerDemandData(resp.body)
         IN  IF ret.exc = ""
             THEN ReturnFromOperation(m, ret.value)
             ELSE Raise(m, ret.exc, resp.body)

\* the request layer, then the suspended function's continuation
HandleResponse(m, resp) ==
    LET fn == Top(m).fn
    IN  IF ~StatusAccepted(resp.status)
        THEN Raise(m, "RequestFailedError",
                   [status |-> resp.status, reason |-> resp.reason])
        ELSE CASE fn = "login" -> LoginResponse(m, resp)
               [] fn = "get_contracts" -> ContractsResponse(m, resp)
               [] fn = "get_measure" -> MeasureResponse(m, resp)
               [] fn = "is_icp_ready" -> IcpResponse(m, resp)
               [] fn = "get_historical_data" -> HistoricalDataResponse(m, resp)
               [] fn = "_get_historical_generic_data" -> GoGenericResponse(m, resp)
               [] fn = "get_historical_consumption" -> GoConsumptionResponse(m, resp)
               [] fn = "get_historical_power_demand" -> PowerDemandResponse(m, resp)
               [] OTHER -> SelectionResponse(m, resp)

\* ---------------------------------------------------------------- state
Machine(p) ==
    [stack |-> stack[p], log |-> log[p], ts |-> login_ts, contract |-> contract,
     done |-> FALSE, out |-> NoOut]

MkLast(act, p, op, fn, arg, resp, m) ==
    [act |-> act, proc |-> p, op |-> op, fn |-> fn, arg |-> arg,
     status |-> resp.status, body |-> resp.body,
     done |-> m.done, out |-> m.out, log |-> m.log,
     events |-> SubSeq(m.log, Len(log[p]) + 1, Len(m.log)),
     pre |-> [ts |-> login_ts, contract |-> contract,
              logged |-> IsLogged(login_ts, now, timeout)]]

NoResponse == [status |-> 0, reason |-> "", body |-> NonDictBody]

Idle == [stack |-> <<>>, log |-> <<>>, ts |-> NoLogin, contract |-> NoContract,
         done |-> FALSE, out |-> NoOut]

Commit(p, m) ==
    /\ login_ts' = m.ts
    /\ contract' = m.contract
    /\ stack' = [stack EXCEPT ![p] = m.stack]
    /\ log' = [log EXCEPT ![p] = IF m.done THEN <<>> ELSE m.log]

\* a parser, its arguments and the payload it is applied to
MkInput(fn, arg, data) == [fn |-> fn, arg |-> arg, data |-> data]

NoInput == MkInput("", NoContract, NonDictBody)

\* Client.__init__
Constructed ==
    /\ variant \in Variants
    /\ auto_renew \in BOOLEAN
    /\ timeout \in 0..MaxTimeout
    /\ contract \in {NoContract, "c1"}
    /\ input = NoInput
    /\ login_ts = NoLogin
    /\ now = 0
    /\ stack = [p \in Procs |-> <<>>]
    /\ log = [p \in Procs |-> <<>>]
    /\ last = MkLast("init", "a", "", "", NoContract, NoResponse, Idle)

\* the session operations: login, contract listing and selection
SessionOperations == {"login", "get_contracts", "select_contract"}

\* one caller reads the meter and the state of its switch
InitMeasure ==
    Constructed /\ callers = {"a"} /\ offered = {"get_measure", "is_icp_ready"}

\* one caller queries the historical data of a client without a
\* preconfigured contract
InitHistorical ==
    /\ Constructed
    /\ callers = {"a"}
    /\ offered = HistoricalOperations
    /\ contract = NoContract

\* one caller queries the power demand of an ideenergy client with a
\* session timeout of one tick
InitPowerDemand ==
    /\ Constructed
    /\ callers = {"a"}
    /\ offered = {"get_historical_power_demand"}
    /\ variant = "ideenergy"
    /\ timeout = 1
    /\ contract = NoContract

\* one caller mixes the session operations with readings of the meter
InitSession ==
    /\ Constructed
    /\ callers = {"a"}
    /\ offered = SessionOperations \cup {"get_measure"}

\* one caller awaits each operation before it invokes the next
Init == Constructed /\ callers = {"a"} /\ offered = SessionOperations

\* the callers of one ideenergy client, built with a contract and
\* auto-renew, list the contracts concurrently
InitConcurrent ==
    /\ Constructed
    /\ callers = Procs
    /\ variant = "ideenergy"
    /\ auto_renew = TRUE
    /\ timeout = 1
    /\ contract = "c1"
    /\ offered = {"get_contracts"}

\* the wall clock advances
Tick ==
    /\ now < MaxTime
    /\ now' = now + 1
    /\ last' = MkLast("tick", "a", "", "", NoContract, NoResponse, Idle)
    /\ UNCHANGED <<config, login_ts, contract, stack, log>>

\* a caller reads the is_logged property
ReadIsLogged ==
    /\ last' = MkLast("is_logged", "a", "is_logged", "is_logged", NoContract, NoResponse,
                      [Idle EXCEPT !.done = TRUE,
                                   !.out = [kind |-> "return", exc |-> "",
                                            data |-> IsLogged(login_ts, now, timeout)]])
    /\ UNCHANGED <<config, login_ts, contract, now, stack, log>>

\* a caller awaits client.<fn>(arg)
Invoke(p) ==
    /\ p \in callers
    /\ stack[p] = <<>>
    /\ \E fn \in Operations(variant) \cap offered : \E arg \in ArgsOf(fn) :
         LET m == IF fn = "login"
                  THEN CallLogin(Machine(p))
                  ELSE AuthRequired(Machine(p), fn, arg)
         IN  /\ Commit(p, m)
             /\ last' = MkLast("invoke", p, fn, fn, arg, NoResponse, m)
    /\ UNCHANGED <<config, now>>

\* the server answers the request a caller is suspended in
Response(p) ==
    /\ stack[p] # <<>>
    /\ \E status \in Statuses :
       \E body \in ResponseBodies(status, Awaited(Top(Machine(p)))) :
         LET resp == MkResponse(status, body)
             m == HandleResponse(Machine(p), resp)
         IN  /\ Commit(p, m)
             /\ last' = MkLast("response", p, stack[p][1].fn, Top(Machine(p)).fn,
                               Top(Machine(p)).arg, resp, m)
    /\ UNCHANGED <<config, now>>

\* ------------------------------------------------------------ mock.py
\* mock.datetime_range with a step of one hour
DatetimeRange(start, end) == [i \in 1..Max2(end - start, 0) |-> start + (i - 1)]

\* the periods of MockClient.get_historical_consumption; values are what
\* the seeded generator draws
MockPeriods(start, end, values) ==
    [i \in 1..Len(DatetimeRange(start, end)) |->
        [start |-> DatetimeRange(start, end)[i],
         end |-> DatetimeRange(start, end)[i] + 1,
         value |-> values[i], desglosed |-> <<>>]]

RECURSIVE Sum(_)
Sum(values) == IF values = <<>> THEN 0 ELSE Head(values) + Sum(Tail(values))

\* the body of a wrapped MockClient method
MockBody(m, fn, arg, values) ==
    IF fn = "select_contract"
    THEN [m EXCEPT !.contract = arg]
    ELSE [m EXCEPT !.out = [kind |-> "return", exc |-> "",
                            data |-> [kind |-> "HistoricalConsumption",
                                      periods |-> MockPeriods(arg.start, arg.end, values),
                                      total |-> Sum(values), desglosed |-> <<>>]]]

RECURSIVE MockAuthRequired(_, _, _, _, _)
RECURSIVE MockLogin(_, _)

\* MockClient.login: no request is sent
MockLogin(m, depth) ==
    IF depth > MaxDepth
    THEN Raise(m, "RecursionError", "")
    ELSE LET m1 == [m EXCEPT !.ts = now]
         IN  IF m1.contract # NoContract
             THEN MockAuthRequired(m1, "select_contract", m1.contract, <<>>, depth + 1)
             ELSE m1

\* auth_required._wrap around a MockClient method
MockAuthRequired(m, fn, arg, values, depth) ==
    IF depth > MaxDepth
    THEN Raise(m, "RecursionError", "")
    ELSE LET m1 == IF auto_renew = TRUE /\ IsLogged(m.ts, now, timeout) = FALSE
                   THEN MockLogin(m, depth + 1)
                   ELSE m
         IN  IF m1.done THEN m1 ELSE MockBody(m1, fn, arg, values)

\* a caller awaits MockClient.get_historical_consumption(start, end)
MockGetHistoricalConsumption ==
    /\ variant = "mock"
    /\ input.fn = "MockClient.get_historical_consumption"
    /\ LET m == MockAuthRequired(Machine("a"), "get_historical_consumption",
                                 input.arg, input.data, 1)
       IN  /\ Commit("a", [m EXCEPT !.done = TRUE])
           /\ last' = MkLast("mock", "a", input.fn, input.fn, input.arg, NoResponse,
                             [m EXCEPT !.done = TRUE])
    /\ UNCHANGED <<config, now>>

\* ------------------------------------------------------ parsers applied
\* what a parser call delivers: its value, or the exception it raised
Outcome(ret) ==
    [Idle EXCEPT !.done = TRUE,
                 !.out = IF ret.exc = ""
                         THEN [kind |-> "return", exc |-> "", data |-> ret.value]
                         ELSE [kind |-> "raise", exc |-> ret.exc, data |-> ""]]

\* the result of get_historical_generation(start, end) for a payload
GetHistoricalGeneration(start, end, data) == ParseHistoricalGeneration(data)

\* get_historical_generation(start, end) receives a payload
ApplyHistoricalGeneration ==
    /\ input.fn = "get_historical_generation"
    /\ last' = MkLast("parse", "a", input.fn, input.fn, input.arg,
                      MkResponse(200, input.data),
                      Outcome(GetHistoricalGeneration(input.arg.start, input.arg.end,
                                                      input.data)))
    /\ UNCHANGED <<config, login_ts, contract, now, stack, log>>

\* parser_generic_historical_data(data, base_dt)
ApplyGenericHistoricalData ==
    /\ input.fn = "parser_generic_historical_data"
    /\ last' = MkLast("parse", "a", input.fn, input.fn, input.arg,
                      MkResponse(200, input.data),
                      Outcome(ParserGenericHistoricalData(input.data, input.arg)))
    /\ UNCHANGED <<config, login_ts, contract, now, stack, log>>

\* parse_historical_consumption(data)
ApplyHistoricalConsumption ==
    /\ input.fn = "parse_historical_consumption"
    /\ last' = MkLast("parse", "a", input.fn, input.fn, input.arg,
                      MkResponse(200, input.data),
                      Outcome(ParseHistoricalConsumption(input.data)))
    /\ UNCHANGED <<config, login_ts, contract, now, stack, log>>

\* parse_historical_power_demand_data(data)
ApplyHistoricalPowerDemandData ==
    /\ input.fn = "parse_historical_power_demand_data"
    /\ last' = MkLast("parse", "a", input.fn, input.fn, input.arg,
                      MkResponse(200, input.data),
                      Outcome(ParseHistoricalPowerDemandData(input.data)))
    /\ UNCHANGED <<config, login_ts, contract, now, stack, log>>

\* Client._HEADERS of each variant: a dict, name to value
Headers(v) ==
    IF v = "ideenergy"
    THEN [n \in {"Content-Type", "esVersionNueva", "idioma", "movilAPP", "tipoAPP",
                 "User-Agent"} |->
            CASE n = "Content-Type" -> "application/json; charset=utf-8"
              [] n = "esVersionNueva" -> "1"
              [] n = "idioma" -> "es"
              [] n = "movilAPP" -> "si"
              [] n = "tipoAPP" -> "ios"
              [] OTHER -> "Mozilla/5.0 (iPhone; CPU iPhone OS 11_4_1 like Mac OS X) AppleWebKit/605.1.15 (KHTML, like Gecko) Mobile/15G77"]
    ELSE [n \in {"Accept", "User-Agent", "Content-Type"} |->
            CASE n = "Accept" -> "*/*"
              [] n = "User-Agent" -> "py-globalomnium/2023.12.1"
              [] OTHER -> "application/x-www-form-urlencoded; charset=UTF-8"]

RawRequestHeadersSetDefault(v, kwargs) ==
    LET headers == IF kwargs.supplied THEN kwargs.headers ELSE <<>>
    IN  [n \in DOMAIN headers \cup DOMAIN Headers(v) |->
            IF n \in DOMAIN headers THEN headers[n] ELSE Headers(v)[n]]

\* the headers that raw_request / _request hands to the session:
\* kwargs.get("headers", {}) updated with _HEADERS
RawRequestHeaders(v, kwargs) ==
    LET headers == IF kwargs.supplied THEN kwargs.headers ELSE <<>>
    IN  [n \in DOMAIN headers \cup DOMAIN Headers(v) |->
            IF n \in DOMAIN Headers(v) THEN Headers(v)[n] ELSE headers[n]]

\* Client.raw_request (ideenergy) or Client._request (globalomnium) is
\* called with the keyword arguments of the input
ApplyRawRequest ==
    /\ input.fn \in {"raw_request", "_request"}
    /\ last' = MkLast("request", "a", input.fn, input.fn, input.arg,
                      MkResponse(200, input.data),
                      Outcome(Ok(RawRequestHeaders(
                          IF input.fn = "raw_request" THEN "ideenergy"
                                                      ELSE "globalomnium",
                          input.arg))))
    /\ UNCHANGED <<config, login_ts, contract, now, stack, log>>

\* the parser calls and their payloads, and the calls of the request layer
\* with and without headers of the caller
Inputs ==
    UNION {{MkInput(fn, [supplied |-> TRUE, headers |-> h], NonDictBody) :
               h \in [names -> {"x", "y"}]} :
           fn \in {"raw_request", "_request"},
           names \in SUBSET {"Content-Type", "User-Agent", "X-Trace"}} \cup
    {MkInput(fn, [supplied |-> FALSE, headers |-> <<>>], NonDictBody) :
        fn \in {"raw_request", "_request"}} \cup
    {MkInput("get_historical_generation", a, d) :
        a \in HistoricalArgs({"GENERATION"}), d \in GenerationBodies} \cup
    {MkInput("parser_generic_historical_data", DayStart(b), d) :
        b \in 0..MaxPoint, d \in HistoricalBodies} \cup
    {MkInput("parse_historical_consumption", NoContract, d) : d \in ConsumptionBodies} \cup
    {MkInput("parse_historical_power_demand_data", NoContract, d) :
        d \in PowerDemandBodies} \cup
    UNION {{MkInput("MockClient.get_historical_consumption", a, v) :
               v \in [1..Len(DatetimeRange(a.start, a.end)) -> {0, 1000}]} :
           a \in {[req_type |-> "CONSUMPTION", start |-> s, end |-> e] :
                      s \in 0..MaxEntries, e \in 0..MaxEntries}}

\* a MockClient, and a payload for a parser or the values the mock draws
InitParsers ==
    /\ variant = "mock"
    /\ auto_renew \in BOOLEAN
    /\ timeout = 1
    /\ callers = {"a"}
    /\ offered = {}
    /\ input \in Inputs
    /\ contract \in {NoContract, "c1"}
    /\ login_ts = NoLogin
    /\ now = 0
    /\ stack = [p \in Procs |-> <<>>]
    /\ log = [p \in Procs |-> <<>>]
    /\ last = MkLast("init", "a", "", "", NoContract, NoResponse, Idle)

NextParsers ==
    \/ MockGetHistoricalConsumption
    \/ ApplyHistoricalGeneration
    \/ ApplyGenericHistoricalData
    \/ ApplyHistoricalConsumption
    \/ ApplyHistoricalPowerDemandData
    \/ ApplyRawRequest

SpecParsers == InitParsers /\ [][NextParsers]_vars

Next ==
    \/ Tick
    \/ ReadIsLogged
    \/ \E p \in Procs : Invoke(p)
    \/ \E p \in Procs : Response(p)

Spec == Init /\ [][Next]_vars

SpecConcurrent == InitConcurrent /\ [][Next]_vars

SpecMeasure == InitMeasure /\ [][Next]_vars

SpecHistorical == InitHistorical /\ [][Next]_vars

SpecPowerDemand == InitPowerDemand /\ [][Next]_vars

SpecSession == InitSession /\ [][Next]_vars

\* ================================================================ claims
IsRequest(e) == e.ev = "req"
IsLoginRequest(e) == e.ev = "req" /\ e.fn = "login"

\* the wrapper entry that belongs to the request at index i of log L
WrapIndex(L, i) ==
    LET S == {j \in 1..(i - 1) : L[j].ev = "wrap" /\ L[j].depth = L[i].depth}
    IN  IF S = {} THEN 0 ELSE Max(S)

\* the login request that belongs to the login return at index r of log L
LoginStart(L, r) ==
    LET S == {j \in 1..(r - 1) : IsLoginRequest(L[j]) /\ L[j].depth = L[r].depth}
    IN  IF S = {} THEN 0 ELSE Max(S)

\* the logins that returned normally in the step that led here
ReturnedLogins ==
    {r \in 1..Len(last.log) :
        /\ last.log[r].ev = "login_ret"
        /\ r > Len(last.log) - Len(last.events)}

LoginAnswered ==
    last.act = "response" /\ last.fn = "login" /\ last.status = 200

\* ---------------------------------------------------------------------
\* C1: is_logged is true iff a login timestamp has been recorded and
\* now - login timestamp is strictly less than the session timeout (false
\* exactly at the timeout, false before any login); evaluating it changes
\* no client state.
C1_IsLogged ==
    [][last'.act = "is_logged" =>
          /\ last'.out.data = (login_ts' # NoLogin /\ now' - login_ts' < timeout')
          /\ UNCHANGED <<config, login_ts, contract, now, stack, log>>]_vars

C1_Witness ==
    /\ last.act = "is_logged"
    /\ timeout > 0
    /\ login_ts # NoLogin
    /\ now - login_ts = timeout
    /\ last.out.data = FALSE

\* ---------------------------------------------------------------------
\* C2: a wrapped operation's own request follows a completed login() when
\* is_logged was false and auto-renew enabled at invocation; otherwise it is
\* sent at once, with no login request before it.
C2_OwnRequest(L, i) ==
    LET w == WrapIndex(L, i)
    IN  /\ w > 0
        /\ IF auto_renew /\ ~L[w].flag
           THEN /\ IsLoginRequest(L[w + 1])
                /\ \E k \in (w + 2)..(i - 1) :
                      L[k].ev = "login_ret" /\ L[k].depth = L[i].depth + 1
           ELSE i = w + 1

C2_Logs == {last.log} \cup {log[p] : p \in Procs}

C2_AuthRequired ==
    \A L \in C2_Logs : \A i \in 1..Len(L) :
        (IsRequest(L[i]) /\ L[i].fn # "login") => C2_OwnRequest(L, i)

C2_Witness ==
    \E i \in 1..Len(last.log) :
        /\ IsRequest(last.log[i])
        /\ last.log[i].fn = "get_contracts"
        /\ auto_renew
        /\ ~last.log[WrapIndex(last.log, i)].flag
        /\ i > 2

\* ---------------------------------------------------------------------
\* C3: login() raises InvalidData when the decoded response is not a JSON
\* object and CommandError when its success field is absent or not the
\* success value; either way the login timestamp is unchanged.
C3_LoginFailure ==
    LoginAnswered =>
        /\ last.body.kind # "dict" =>
              /\ last.out.kind = "raise" /\ last.out.exc = "InvalidData"
              /\ login_ts = last.pre.ts
        /\ (last.body.kind = "dict" /\ last.body.success \notin {StrTrue, PyTrue}) =>
              /\ last.out.kind = "raise" /\ last.out.exc = "CommandError"
              /\ login_ts = last.pre.ts

\* what the ideenergy client does, and what the globalomnium client does
C3_Ideenergy ==
    (LoginAnswered /\ variant = "ideenergy") =>
        /\ last.body.kind # "dict" =>
              /\ last.out.kind = "raise" /\ last.out.exc = "InvalidData"
              /\ login_ts = last.pre.ts
        /\ (last.body.kind = "dict" /\ last.body.success # StrTrue) =>
              /\ last.out.kind = "raise" /\ last.out.exc = "CommandError"
              /\ login_ts = last.pre.ts

C3_Globalomnium ==
    (LoginAnswered /\ variant = "globalomnium") =>
        /\ last.out.kind = "raise" /\ last.out.exc = "InvalidData"
        /\ login_ts = NoLogin

\* ---------------------------------------------------------------------
\* C4 as stated: after login() returns normally, with a session timeout
\* greater than zero, is_logged is true.
C4_LoggedOnReturn ==
    (ReturnedLogins # {} /\ timeout > 0) => IsLogged(login_ts, now, timeout)

\* C4 as amended: after login() returns normally, with a session timeout
\* greater than zero, is_logged is true provided less than the timeout has
\* elapsed since login() recorded its timestamp, which is always so when no
\* contract is preconfigured; the selection of a preconfigured contract, which
\* login() awaits after recording the timestamp, may outlast the timeout.
C4_LoggedWithinTimeout ==
    \A r \in ReturnedLogins :
        LET e == last.log[LoginStart(last.log, r) + 1]
        IN  timeout > 0 =>
              /\ e.ev = "login_ts"
              /\ (now - e.at < timeout) => IsLogged(login_ts, now, timeout)
              /\ e.arg = NoContract => IsLogged(login_ts, now, timeout)

C4_Witness ==
    \E r \in ReturnedLogins :
        LET e == last.log[LoginStart(last.log, r) + 1]
        IN  /\ timeout > 0
            /\ e.arg # NoContract
            /\ e.at < now
            /\ IsLogged(login_ts, now, timeout)

\* ---------------------------------------------------------------------
\* C5: a login() that returns normally has sent exactly one POST to the
\* login endpoint, then recorded the timestamp, then -- only if the client
\* held a contract -- sent exactly one selection request for that
\* contract, and nothing else.
C5_Segment(L, r) ==
    LET s == LoginStart(L, r)
        seg == SubSeq(L, s, r)
        c == seg[2].arg
    IN  /\ s > 0
        /\ seg[1].method = "POST" /\ seg[1].url = <<"_LOGIN_ENDPOINT", "">>
        /\ seg[2].ev = "login_ts"
        /\ IF c = NoContract
           THEN Len(seg) = 3
           ELSE /\ Len(seg) = 5
                /\ seg[3].ev = "wrap"
                /\ IsRequest(seg[4])
                /\ seg[4].method = "GET"
                /\ seg[4].url = <<"_CONTRACT_SELECTION_ENDPOINT", c>>

C5_LoginRequests ==
    variant = "ideenergy" =>
        \A r \in ReturnedLogins :
            /\ C5_Segment(last.log, r)
            /\ last.log[LoginStart(last.log, r) + 1].arg = NoContract
                  => last.pre.contract = NoContract

C5_Witness ==
    /\ last.done
    /\ last.op = "login"
    /\ last.out.kind = "return"
    /\ Len(last.log) = 5
    /\ last.log[4].url = <<"_CONTRACT_SELECTION_ENDPOINT", "c1">>

\* ---------------------------------------------------------------------
\* C6: when the wrapper's login() fails, the failure reaches the caller, the
\* wrapped operation's own request is never sent and no second login is
\* attempted in that invocation.
C6_WrapperLoginFailed ==
    /\ last.done
    /\ Len(last.log) >= 2
    /\ last.log[1].ev = "wrap"
    /\ auto_renew /\ ~last.log[1].flag
    /\ \A k \in 1..Len(last.log) :
          ~(last.log[k].ev = "login_ret" /\ last.log[k].depth = 2)

C6_FailedRelogin ==
    C6_WrapperLoginFailed =>
        /\ last.out.kind = "raise"
        /\ \A k \in 1..Len(last.log) :
              ~(IsRequest(last.log[k]) /\ last.log[k].depth = 1)
        /\ Cardinality({k \in 1..Len(last.log) : IsLoginRequest(last.log[k])}) = 1

\* the same, for the clients whose session timeout is not zero
C6_PositiveTimeout ==
    timeout > 0 => C6_FailedRelogin

\* ---------------------------------------------------------------------
\* C7: login() raises UserExpiredError when the login response carries the
\* expired-account sentinel.
C7_UserExpired ==
    (LoginAnswered /\ variant = "ideenergy"
       /\ last.body.kind = "dict" /\ last.body.expired) =>
        /\ last.out.kind = "raise"
        /\ last.out.exc = "UserExpiredError"

\* ---------------------------------------------------------------------
\* C8: a response whose status is not 200 raises RequestFailedError
\* carrying that response and delivers nothing else to the caller; a
\* response with status 200 never raises RequestFailedError.
C8_RequestFailed ==
    last.act = "response" =>
        /\ last.status # 200 =>
              /\ last.done
              /\ last.out.kind = "raise"
              /\ last.out.exc = "RequestFailedError"
              /\ last.out.data = [status |-> last.status, reason |-> Reason(last.status)]
              /\ last.events = <<>>
              /\ login_ts = last.pre.ts /\ contract = last.pre.contract
        /\ last.status = 200 => last.out.exc # "RequestFailedError"

C8_Witness ==
    /\ last.act = "response"
    /\ last.status = 204
    /\ last.out.exc = "RequestFailedError"
    /\ last.out.data.status = 204

\* ---------------------------------------------------------------------
\* C9: get_contracts() raises CommandError when the success sentinel is
\* absent or false, InvalidData when it reports success but the contract
\* list is absent, and otherwise returns the contract list unchanged.
C9_Answered(v) ==
    /\ last.act = "response" /\ last.fn = "get_contracts" /\ last.status = 200
    /\ last.body.kind = "dict"
    /\ variant \in v

C9_Contract ==
    /\ last.body.success \in {Absent, PyFalse} =>
          last.out.kind = "raise" /\ last.out.exc = "CommandError"
    /\ (last.body.success = PyTrue /\ ~last.body.has_list) =>
          last.out.kind = "raise" /\ last.out.exc = "InvalidData"
    /\ (last.body.success = PyTrue /\ last.body.has_list) =>
          /\ last.out.kind = "return"
          /\ last.out.data.kind = "list"
          /\ last.out.data.items = last.body.items
    /\ last.out.kind \in {"raise", "return"}

C9_GetContracts == C9_Answered(Variants) => C9_Contract

C9_Ideenergy == C9_Answered({"ideenergy"}) => C9_Contract

\* ---------------------------------------------------------------------
\* C10: select_contract(id) sets the selected contract to id when the
\* server reports success; when the server rejects id it raises
\* InvalidContractError carrying id and leaves the selected contract and
\* the login timestamp unchanged.
C10_SelectContract ==
    [][(last'.act = "response" /\ last'.fn = "select_contract"
          /\ last'.status = 200 /\ last'.body.kind = "dict") =>
          /\ last'.body.success = PyTrue => contract' = last'.arg
          /\ last'.body.success \in {Absent, PyFalse} =>
                /\ last'.out.kind = "raise"
                /\ last'.out.exc = "InvalidContractError"
                /\ last'.out.data = last'.arg
                /\ contract' = contract
                /\ login_ts' = login_ts]_vars

C10_Witness ==
    /\ last.act = "response" /\ last.fn = "select_contract"
    /\ last.out.exc = "InvalidContractError"
    /\ last.arg = "c2"
    /\ contract = "c1"
    /\ login_ts # NoLogin

\* ---------------------------------------------------------------------
\* C11: get_measure() raises InvalidData, and nothing else, when the counter
\* or the magnitude field is missing or not numeric (a non-numeric string or
\* null); otherwise it returns the Measure of the counter as an integer and
\* the magnitude as a float.
C11_Answered ==
    last.act = "response" /\ last.fn = "get_measure" /\ last.status = 200
        /\ last.body.kind = "dict"

C11_Numeric(v) ==
    \/ v.t = "int"
    \/ v.t = "str" /\ v.s \in {<<"4", "2">>, <<"1", ".", "5", "0">>}

\* a counter that is numeric but not integral ("1.50") is left open
C11_GetMeasure ==
    C11_Answered =>
        IF C11_Numeric(last.body.counter) /\ C11_Numeric(last.body.magnitude)
        THEN last.body.counter \in {PyNum(7), PyStr(<<"4", "2">>)} =>
                /\ last.out.kind = "return"
                /\ last.out.data.accumulate \in {7, 42}
                /\ last.out.data.instant.scale \in {0, 1}
        ELSE last.out.kind = "raise" /\ last.out.exc = "InvalidData"

\* what the ideenergy client does: null is not caught
C11_Ideenergy ==
    (C11_Answered /\ variant = "ideenergy") =>
        LET c == last.body.counter
            g == last.body.magnitude
        IN  CASE c.t = "None" \/ (PyInt(c).exc = "" /\ g.t = "None") ->
                   last.out.kind = "raise" /\ last.out.exc = "TypeError"
              [] c.t = "absent" \/ c = PyStr(<<"a">>) \/ c = PyStr(<<"1", ".", "5", "0">>)
                 \/ g.t = "absent" \/ g = PyStr(<<"a">>) ->
                   last.out.kind = "raise" /\ last.out.exc = "InvalidData"
              [] OTHER ->
                   /\ last.out.kind = "return"
                   /\ last.out.data.accumulate = (IF c.t = "int" THEN 7 ELSE 42)
                   /\ last.out.data.instant =
                         (CASE g.t = "int" -> [num |-> 7, scale |-> 0]
                            [] g.s = <<"4", "2">> -> [num |-> 42, scale |-> 0]
                            [] OTHER -> [num |-> 15, scale |-> 1])

\* the globalomnium client subscripts the response object
C11_Globalomnium ==
    (last.act = "response" /\ last.fn = "get_measure" /\ last.status = 200
        /\ variant = "globalomnium") =>
        last.out.kind = "raise" /\ last.out.exc = "TypeError"

\* ---------------------------------------------------------------------
\* C12: a historical query called with (a, b) and with (b, a) requests the
\* same range, which runs from min(a, b) to max(a, b), and returns the same
\* result for the same payload.
C12_Swap(arg) == [arg EXCEPT !.start = arg.end, !.end = arg.start]

C12_Separator(fn) == IF fn = "get_historical_data" THEN "/" ELSE "&"

C12_Range(e) ==
    IF e.fn = "get_historical_consumption" THEN e.data ELSE e.url[2]

C12_Outcome(fn, arg, status, body) ==
    HandleResponse([Idle EXCEPT !.stack = <<MkFrame(fn, arg, "request")>>],
                   MkResponse(status, body)).out

C12_SameRequest ==
    \A i \in 1..Len(last.log) :
        LET e == last.log[i]
        IN  (IsRequest(e) /\ e.fn \in HistoricalOperations) =>
              /\ e.url = Endpoint(e.fn, C12_Swap(e.arg))
              /\ e.data = RequestData(e.fn, C12_Swap(e.arg))
              /\ C12_Range(e) = FormatRange(Min2(e.arg.start, e.arg.end),
                                            Max2(e.arg.start, e.arg.end),
                                            C12_Separator(e.fn))

C12_SameResult ==
    (last.act = "response" /\ last.fn \in HistoricalOperations) =>
        /\ last.out = C12_Outcome(last.fn, last.arg, last.status, last.body)
        /\ last.out = C12_Outcome(last.fn, C12_Swap(last.arg), last.status, last.body)

C12_SwappedArguments == C12_SameRequest /\ C12_SameResult

\* what the code does: called with start <= end it requests that range,
\* called with start > end it requests the empty range from end to end
C12_RangeAsCoded ==
    \A i \in 1..Len(last.log) :
        LET e == last.log[i]
        IN  (IsRequest(e) /\ e.fn \in HistoricalOperations) =>
              C12_Range(e) = FormatRange(Min2(e.arg.start, e.arg.end), e.arg.end,
                                         C12_Separator(e.fn))

\* ---------------------------------------------------------------------
\* C13: the periods a historical query for (start, end) returns are
\* exactly the parsed periods p with start <= p.start < end, in parsed
\* order; the periods outside the range are removed.
C13_Returned ==
    /\ last.act = "response" /\ last.fn \in HistoricalOperations
    /\ last.out.kind = "return"

\* the start of a returned period, and the bounds of the queried range
C13_PeriodStart(p) == IF variant = "ideenergy" THEN p[1] ELSE p.start
C13_Bound(t) == IF variant = "ideenergy" THEN DayStart(t) ELSE t

C13_InRange(p) ==
    /\ C13_Bound(Min2(last.arg.start, last.arg.end)) <= C13_PeriodStart(p)
    /\ C13_PeriodStart(p) < C13_Bound(Max2(last.arg.start, last.arg.end))

C13_RangeFilter ==
    C13_Returned =>
        \A i \in 1..Len(last.out.data.historical) :
            C13_InRange(last.out.data.historical[i])

\* what the code does: get_historical_data and _get_historical_generic_data
\* return every period of the payload, and _get_historical_consumption
\* never returns
C13_Unfiltered ==
    (last.act = "response" /\ last.fn \in HistoricalOperations /\ last.status = 200) =>
        IF last.fn = "get_historical_consumption"
        THEN last.out.kind = "raise" /\ last.out.exc = "NameError"
        ELSE last.out.kind = "return" =>
                Len(last.out.data.historical) =
                    Len(SelectSeq(last.body.entries, IsNotNone))

\* the filter of _get_historical_consumption drops the hour that ends at end
C13_FilterAsCoded ==
    LET hour(h) == [start |-> h, end |-> h + 1]
    IN  GoConsumptionsInRange(<<hour(0), hour(1), hour(2)>>, 0, 2) = <<hour(0)>>

\* ---------------------------------------------------------------------
\* C14: for a generation payload of N hourly entries, all present and
\* numeric, get_historical_generation(start, end) yields N periods, the i-th
\* starting at the payload's fechaPeriodo date at midnight plus i hours with
\* the float value of the i-th valor (0.0 included), whatever start and end.
C14_Value(valor) ==
    IF valor.s = <<"0", ".", "0">> THEN [num |-> 0, scale |-> 0]
                                   ELSE [num |-> 15, scale |-> 1]

C14_AllNumeric ==
    /\ last.act = "parse" /\ last.fn = "get_historical_generation"
    /\ last.body.kind = "dict" /\ last.body.has_y
    /\ last.body.fechaPeriodo.t = "datestr"
    /\ \A i \in 1..Len(last.body.entries) :
          /\ last.body.entries[i].t = "dict"
          /\ last.body.entries[i].valor \in
                {PyStr(<<"0", ".", "0">>), PyStr(<<"1", ".", "5", "0">>)}

C15_Periods ==
    IF last.fn = "parser_generic_historical_data"
    THEN last.out.data.historical
    ELSE last.out.data.periods

C15_Series ==
    /\ last.act \in {"parse", "mock"}
    /\ last.fn # "parse_historical_power_demand_data"
    /\ last.out.kind = "return"

C15_Hourly ==
    C15_Series =>
        /\ \A i \in 1..Len(C15_Periods) : C15_Periods[i].end = C15_Periods[i].start + 1
        /\ \A i \in 1..Len(C15_Periods) : \A j \in i..Len(C15_Periods) :
              C15_Periods[i].start <= C15_Periods[j].start

C15_Witness ==
    /\ C15_Series
    /\ last.fn = "parser_generic_historical_data"
    /\ Len(last.body.entries) = MaxEntries
    /\ Len(C15_Periods) = MaxEntries
    /\ C15_Periods[MaxEntries].end = last.arg + MaxEntries

\* the same of the mock client
C15_MockWitness ==
    /\ C15_Series
    /\ last.act = "mock"
    /\ Len(C15_Periods) = MaxEntries

\* ---------------------------------------------------------------------
\* C16: the parsed demands are the stable ascending sort by timestamp of
\* the concatenation of the monthly lists: every sample once, its value
\* unchanged, timestamps non-decreasing, equal timestamps in input order.
C16_Parsed ==
    /\ last.act = "parse" /\ last.fn = "parse_historical_power_demand_data"
    /\ last.out.kind = "return"

\* the samples of the payload, month after month
C16_Samples ==
    LET months == last.body.potMaxMens
    IN  CASE Len(months) = 0 -> <<>>
          [] Len(months) = 1 -> months[1]
          [] OTHER -> months[1] \o months[2]

C16_Timestamp(sample) == sample.name.day * HoursPerDay + sample.name.hour

C16_Permutations(n) ==
    {f \in [1..n -> 1..n] : \A i \in 1..n : \A j \in 1..n : f[i] = f[j] => i = j}

C16_StableSort ==
    C16_Parsed =>
        LET demands == last.out.data.demands
            n == Len(C16_Samples)
        IN  /\ Len(demands) = n
            /\ \A i \in 1..n : \A j \in i..n : demands[i].dt <= demands[j].dt
            /\ \E f \in C16_Permutations(n) :
                  /\ \A i \in 1..n :
                        /\ demands[i].dt = C16_Timestamp(C16_Samples[f[i]])
                        /\ demands[i].value = C16_Samples[f[i]].y
                  /\ \A i \in 1..n : \A j \in (i + 1)..n :
                        demands[i].dt = demands[j].dt => f[i] < f[j]

\* a later sample of the first month sorts before its predecessor, and two
\* samples of one timestamp stay in input order
C16_Witness ==
    /\ C16_Parsed
    /\ Len(last.body.potMaxMens) = 2
    /\ last.body.potMaxMens[1] =
          <<MkItem(DateStr(0, 1), 2), MkItem(DateStr(0, 0), 2)>>
    /\ last.body.potMaxMens[2] = <<MkItem(DateStr(0, 0), 1)>>
    /\ last.out.data.demands =
          <<[dt |-> 0, value |-> 2], [dt |-> 0, value |-> 1], [dt |-> 1, value |-> 2]>>

\* ---------------------------------------------------------------------
\* C17: get_historical_power_demand() sends exactly two requests of its
\* own, in order: the limits lookup, then the samples request whose URL
\* carries the fecMin/fecMax of the first answer; when the limits answer
\* does not report success it raises CommandError and sends no second
\* request.
C17_OwnRequest(e) == e.ev = "req" /\ e.fn = "get_historical_power_demand"

C17_Requests(L) == SelectSeq(L, C17_OwnRequest)

C17_LimitsAnswered ==
    /\ last.act = "response" /\ last.fn = "get_historical_power_demand"
    /\ last.arg = NoLimits
    /\ last.status = 200

C17_InOrder(L) ==
    LET requests == C17_Requests(L)
    IN  /\ Len(requests) <= 2
        /\ Len(requests) >= 1 => requests[1].url = <<"_POWER_DEMAND_LIMITS_ENDPOINT", "">>
        /\ Len(requests) = 2 => requests[2].url[1] = "_POWER_DEMAND_PERIOD_ENDPOINT"

C17_TwoRequests ==
    /\ \A L \in {last.log} \cup {log[p] : p \in Procs} : C17_InOrder(L)
    /\ (last.op = "get_historical_power_demand" /\ last.out.kind = "return")
          => Len(C17_Requests(last.log)) = 2
    /\ C17_LimitsAnswered =>
          IF last.body.resultado = "correcto"
          THEN /\ ~last.done
               /\ Len(last.events) = 1
               /\ last.events[1].ev = "req"
               /\ last.events[1].method = "GET"
               /\ last.events[1].url =
                     <<"_POWER_DEMAND_PERIOD_ENDPOINT",
                       last.body.fecMin \o "/" \o last.body.fecMax>>
          ELSE /\ last.out.exc = "CommandError"
               /\ last.events = <<>>
               /\ Len(C17_Requests(last.log)) = 1

C17_Witness ==
    /\ last.op = "get_historical_power_demand" /\ last.out.kind = "return"
    /\ Len(last.out.data.demands) = MaxSamples
    /\ Len(C17_Requests(last.log)) = 2
    /\ C17_Requests(last.log)[2].url =
          <<"_POWER_DEMAND_PERIOD_ENDPOINT", "01-10-202400:00:00/30-11-202523:00:00">>

\* the limits answer that reports an error
C17_ErrorWitness ==
    /\ C17_LimitsAnswered
    /\ last.body.resultado = "error"
    /\ last.out.exc = "CommandError"

\* ---------------------------------------------------------------------
\* C18: for a well-formed consumption payload the parser returns one
\* ConsumptionForPeriod per hourly value, the idx-th starting idx hours
\* after fechaDesde at midnight, with the idx-th value and the idx-th
\* breakdown under the tariff-period names, and the payload's total.
C18_WellFormed ==
    /\ last.act = "parse" /\ last.fn = "parse_historical_consumption"
    /\ last.body.kind = "list"
    /\ last.body.fechaDesde.t = "datestr"
    /\ last.body.periodos \in {<<"P1">>, <<"P1", "P2">>}
    /\ Len(last.body.totales) = Len(last.body.periodos)
    /\ Len(last.body.valoresPT) = Len(last.body.valores)

C18_Consumption ==
    C18_WellFormed =>
        /\ last.out.kind = "return"
        /\ last.out.data.total = last.body.total
        /\ Len(last.out.data.periods) = Len(last.body.valores)
        /\ \A i \in 1..Len(last.body.valores) :
              LET period == last.out.data.periods[i]
              IN  /\ period.start = last.body.fechaDesde.day * HoursPerDay + (i - 1)
                  /\ period.value = last.body.valores[i]
                  /\ DOMAIN period.desglosed =
                        {last.body.periodos[j] : j \in 1..Len(last.body.periodos)}
                  /\ \A j \in 1..Len(last.body.periodos) :
                        period.desglosed[last.body.periodos[j]] = 10 * i + j

C18_Witness ==
    /\ C18_WellFormed
    /\ last.body.fechaDesde = DateStr(1, 0)
    /\ last.body.periodos = <<"P1", "P2">>
    /\ last.body.total = 7
    /\ last.body.valores = <<5, 0>>
    /\ last.out.data.periods[2].start = HoursPerDay + 1
    /\ last.out.data.periods[2].value = 0
    /\ last.out.data.periods[2].desglosed["P2"] = 22

\* ---------------------------------------------------------------------
\* C19: is_logged turns from false to true only in the step in which
\* login() receives a success response and records its timestamp, which
\* with a preconfigured contract is before login() completes; it turns
\* from true to false only by a tick of the clock that brings the elapsed
\* time to the timeout; and the login timestamp changes in no other step
\* than a login success, so no failed request, failed re-login, contract
\* selection or data query alters it.
C19_LoggedIn == ~last.pre.logged /\ IsLogged(login_ts, now, timeout)

C19_LoggedOut == last.pre.logged /\ ~IsLogged(login_ts, now, timeout)

C19_LoginSucceeded ==
    /\ last.act = "response" /\ last.fn = "login"
    /\ last.status = 200
    /\ last.body.kind = "dict"
    /\ last.body.success = LoginSentinel(variant)

C19_SessionStates ==
    /\ C19_LoggedIn => C19_LoginSucceeded /\ login_ts = now
    /\ C19_LoggedOut =>
          /\ last.act = "tick"
          /\ login_ts = last.pre.ts
          /\ now - login_ts >= timeout
    /\ login_ts # last.pre.ts => C19_LoginSucceeded /\ login_ts = now

\* as stated: is_logged turns true only in a step that completes a login()
C19_AtCompletion ==
    C19_LoggedIn => \E i \in 1..Len(last.events) : last.events[i].ev = "login_ret"

\* is_logged has turned true while login() still awaits the selection of
\* the preconfigured contract
C19_Witness ==
    /\ C19_LoggedIn
    /\ C19_LoginSucceeded
    /\ last.pre.contract = "c1"
    /\ ~last.done
    /\ Len(last.events) = 3
    /\ last.events[1].ev = "login_ts"
    /\ last.events[3].ev = "req" /\ last.events[3].fn = "select_contract"

\* the session has expired by the clock alone
C19_ExpiredWitness == C19_LoggedOut /\ last.act = "tick" /\ now - login_ts = timeout

\* a data query failed on a live session and left the timestamp alone
C19_FailedQueryWitness ==
    /\ last.act = "response" /\ last.fn = "get_measure"
    /\ last.out.kind = "raise"
    /\ last.pre.logged /\ IsLogged(login_ts, now, timeout)
    /\ login_ts = last.pre.ts

\* ---------------------------------------------------------------------
\* C20: with auto-renew, nothing serialises the check-then-login of
\* auth_required: every authenticated operation invoked while is_logged is
\* false sends a login request of its own, whatever the other caller is
\* doing, so two callers can both have read is_logged false and both have
\* a login request in flight.
C20_Unserialised ==
    (/\ last.act = "invoke" /\ last.op # "login"
     /\ auto_renew /\ ~last.pre.logged)
        => /\ Len(last.events) = 2
           /\ last.events[1].ev = "wrap" /\ last.events[1].flag = FALSE
           /\ IsLoginRequest(last.events[2])
           /\ ~last.done

C20_AwaitsLogin(p) ==
    /\ Len(stack[p]) = 2
    /\ stack[p][1].fn # "login"
    /\ stack[p][2].fn = "login" /\ stack[p][2].at = "request"
    /\ Len(log[p]) = 2
    /\ log[p][1].ev = "wrap" /\ log[p][1].flag = FALSE
    /\ IsLoginRequest(log[p][2])

\* both callers read is_logged false and each awaits its own login
C20_Witness ==
    /\ \A p \in Procs : C20_AwaitsLogin(p)
    /\ last.act = "invoke"
    /\ login_ts # NoLogin /\ ~IsLogged(login_ts, now, timeout)

\* ---------------------------------------------------------------------
\* C21: in every generic historical parser a surviving entry that sat at
\* position idx of the raw hourly array starts at the base date plus idx
\* hours: every returned period starts at the hour of a raw entry that is
\* not null, so a null entry earlier in the array shifts nothing.
C21_Start(p) == IF last.fn = "get_historical_data" THEN p[1] ELSE p.start

C21_Base ==
    IF last.act = "parse" THEN last.arg
    ELSE IF last.fn = "get_historical_data"
    THEN DayStart(Min2(last.arg.start, last.arg.end))
    ELSE Midnight(Min2(last.arg.start, last.arg.end))

C21_Parsed(fns) ==
    /\ last.act \in {"response", "parse"}
    /\ last.fn \in fns
    /\ last.out.kind = "return"

C21_AtRawPosition ==
    \A k \in 1..Len(last.out.data.historical) :
        LET idx == C21_Start(last.out.data.historical[k]) - C21_Base
        IN  /\ idx \in 0..(Len(last.body.entries) - 1)
            /\ last.body.entries[idx + 1] # EntryNone

C21_RawPosition ==
    C21_Parsed({"get_historical_data", "_get_historical_generic_data",
                "parser_generic_historical_data"}) => C21_AtRawPosition

\* the parsers that count the hours before they drop the null entries
C21_CountedFirst ==
    C21_Parsed({"_get_historical_generic_data", "parser_generic_historical_data"})
        => C21_AtRawPosition

\* get_historical_data drops the null entries before it counts the hours:
\* the k-th returned period starts k hours after the base
C21_CountedLate ==
    C21_Parsed({"get_historical_data"}) =>
        \A k \in 1..Len(last.out.data.historical) :
            C21_Start(last.out.data.historical[k]) = C21_Base + (k - 1)

\* ---------------------------------------------------------------------
\* C22: the generic historical parsers drop every raw entry that is null
\* or whose valor is missing or is no float: no returned period has a null
\* value, and as many periods are returned as there are raw entries that
\* are not null and have a valor that float() accepts.
C22_Coercible(entry) ==
    /\ entry.t = "dict"
    /\ entry.valor \in {PyStr(<<"1", ".", "5", "0">>), PyStr(<<"0", ".", "0">>)}

C22_Value(p) == IF last.fn = "get_historical_data" THEN p[2] ELSE p.value

C22_Kept ==
    /\ \A k \in 1..Len(last.out.data.historical) :
          C22_Value(last.out.data.historical[k]) # PyNull
    /\ Len(last.out.data.historical) = Len(SelectSeq(last.body.entries, C22_Coercible))

C22_Dropped ==
    C21_Parsed({"get_historical_data", "_get_historical_generic_data",
                "parser_generic_historical_data"}) => C22_Kept

\* the parser of ideenergy/parsers.py alone
C22_IdeenergyParser == C21_Parsed({"parser_generic_historical_data"}) => C22_Kept

\* what the other two do: the water-utility parser keeps every entry that
\* is not null, with a null value where valor is missing or no float; the
\* inline parser of get_historical_data keeps a null value where valor is
\* missing and fails where it is no float
C22_AsCoded ==
    /\ C21_Parsed({"get_historical_data", "_get_historical_generic_data"}) =>
          /\ Len(last.out.data.historical) = Len(SelectSeq(last.body.entries, IsNotNone))
          /\ \A k \in 1..Len(last.out.data.historical) :
                (C22_Value(last.out.data.historical[k]) = PyNull)
                    <=> ~C22_Coercible(SelectSeq(last.body.entries, IsNotNone)[k])
    /\ (/\ last.act = "response" /\ last.fn = "get_historical_data"
        /\ last.status = 200 /\ last.body.kind = "dict" /\ last.body.has_y
        /\ \E i \in 1..Len(last.body.entries) :
              last.body.entries[i] = Entry(PyStr(<<"a">>)))
          => last.out.kind = "raise" /\ last.out.exc = "ValueError"

\* ---------------------------------------------------------------------
\* C23: parse_historical_consumption fails whenever an expected key is
\* absent or the tariff-period names, the hourly values, the per-hour
\* breakdowns and the total breakdowns differ in length, and a result it
\* returns omits no hourly value, breakdown value or tariff-period name.
C23_Parsed == last.act = "parse" /\ last.fn = "parse_historical_consumption"

C23_Names == {last.body.periodos[j] : j \in 1..Len(last.body.periodos)}

C23_Consistent ==
    /\ last.body.kind = "list"
    /\ last.body.fechaDesde # PyAbsent
    /\ Len(last.body.totales) = Len(last.body.periodos)
    /\ Len(last.body.valoresPT) = Len(last.body.valores)
    /\ \A i \in 1..Len(last.body.valoresPT) :
          Len(last.body.valoresPT[i]) = Len(last.body.periodos)

C23_NoTruncation ==
    C23_Parsed =>
        /\ ~C23_Consistent => last.out.kind = "raise"
        /\ last.out.kind = "return" =>
              /\ DOMAIN last.out.data.desglosed = C23_Names
              /\ Len(last.out.data.periods) = Len(last.body.valores)
              /\ \A i \in 1..Len(last.out.data.periods) :
                    DOMAIN last.out.data.periods[i].desglosed = C23_Names

\* what the code does: it fails when there are more breakdown values than
\* names or fewer breakdown rows than hourly values, and returns when
\* there are fewer values than names or more rows than hourly values
C23_AsCoded ==
    C23_Parsed =>
        (last.out.kind = "raise" <=>
            \/ last.body.kind # "list"
            \/ last.body.fechaDesde.t # "datestr"
            \/ Len(last.body.totales) > Len(last.body.periodos)
            \/ Len(last.body.valoresPT) < Len(last.body.valores))

\* ---------------------------------------------------------------------
\* C24: Client.get_historical_data raises InvalidData for a response that
\* is not valid JSON, that lacks an expected key, or whose accumulated
\* total, CO2 total or hourly valor is a non-numeric string; no ValueError
\* or KeyError reaches the caller.
C24_NonNumeric(v) == v = PyStr(<<"a">>)

C24_Answered ==
    /\ last.act = "response" /\ last.fn = "get_historical_data"
    /\ last.status = 200

C24_Malformed ==
    \/ last.body = NotJson
    \/ /\ last.body.kind = "dict"
       /\ \/ ~last.body.has_y
          \/ last.body.acumulado = PyAbsent \/ last.body.acumuladoCO2 = PyAbsent
          \/ C24_NonNumeric(last.body.acumulado)
          \/ C24_NonNumeric(last.body.acumuladoCO2)
          \/ \E i \in 1..Len(last.body.entries) :
                /\ last.body.entries[i].t = "dict"
                /\ C24_NonNumeric(last.body.entries[i].valor)

C24_InvalidData ==
    C24_Answered =>
        /\ C24_Malformed => last.out.kind = "raise" /\ last.out.exc = "InvalidData"
        /\ last.out.exc \notin {"ValueError", "KeyError"}

\* what the code does: the except clause names TypeError and
\* JSONDecodeError, so a response that is not JSON, not an object or holds
\* a null total gives InvalidData, a missing key escapes as KeyError and a
\* non-numeric string as ValueError
C24_AsCoded ==
    (C24_Answered /\ C24_Malformed) =>
        /\ last.out.kind = "raise"
        /\ last.out.exc \in {"InvalidData", "KeyError", "ValueError"}
        /\ last.out.exc = "InvalidData" <=> last.body = NotJson
        /\ (last.body.kind = "dict" /\ ~last.body.has_y) => last.out.exc = "KeyError"

\* ---------------------------------------------------------------------
\* C27: with auto-renew and a preconfigured contract, the contract
\* selection that login() performs never triggers a nested login(),
\* whatever the session timeout, zero included: its wrapper reads
\* is_logged true, so no login request is sent from within a login().
C27_Logs == {last.log} \cup {log[p] : p \in Procs}

C27_SelectionOfLogin(L, k) ==
    /\ k < Len(L)
    /\ L[k].ev = "login_ts"
    /\ L[k + 1].ev = "wrap" /\ L[k + 1].fn = "select_contract"

C27_NoNestedLogin ==
    auto_renew =>
        \A L \in C27_Logs : \A k \in 1..Len(L) :
            C27_SelectionOfLogin(L, k) =>
                /\ L[k + 1].flag = TRUE
                /\ k + 2 <= Len(L) => ~IsLoginRequest(L[k + 2])

\* the same, for the clients whose session timeout is not zero
C27_PositiveTimeout == timeout > 0 => C27_NoNestedLogin

\* with a zero timeout every selection of a login() logs in again, until
\* the stack of coroutines is exhausted or the server stops answering
C27_ZeroTimeout ==
    (auto_renew /\ timeout = 0) =>
        \A L \in C27_Logs : \A k \in 1..Len(L) :
            C27_SelectionOfLogin(L, k) =>
                /\ L[k + 1].flag = FALSE
                /\ k + 2 <= Len(L) => IsLoginRequest(L[k + 2])

\* ---------------------------------------------------------------------
\* C25: the client never retries: one invocation sends no two requests to
\* the same endpoint, sends no request once it has failed, and
\* get_measure() on a logged-in client sends exactly one request.
C25_SentTo(L) == {k \in 1..Len(L) : IsRequest(L[k])}

C25_OncePerEndpoint(L) ==
    \A i \in C25_SentTo(L) : \A j \in C25_SentTo(L) :
        L[i].url[1] = L[j].url[1] => i = j

C25_NothingAfterFailure ==
    last.out.kind = "raise" =>
        /\ last.done
        /\ stack[last.proc] = <<>>
        /\ \A k \in 1..Len(last.events) : ~IsRequest(last.events[k])

C25_MeasureOnce ==
    (/\ last.op = "get_measure" /\ last.done
     /\ last.log[1].ev = "wrap" /\ last.log[1].flag = TRUE)
        => Cardinality(C25_SentTo(last.log)) = 1

C25_NeverRetries ==
    /\ \A L \in C27_Logs : C25_OncePerEndpoint(L)
    /\ C25_NothingAfterFailure
    /\ C25_MeasureOnce

\* what holds: nothing is sent after a failure and a logged-in get_measure
\* sends one request; with a timeout above zero no endpoint is asked twice
\* in one invocation, but for select_contract on an expired session of a
\* client with a preconfigured contract, where login() selects first
C25_AsCoded ==
    /\ C25_NothingAfterFailure
    /\ C25_MeasureOnce
    /\ timeout > 0 =>
          \A L \in C27_Logs :
              \/ C25_OncePerEndpoint(L)
              \/ /\ L[1].ev = "wrap" /\ L[1].fn = "select_contract" /\ ~L[1].flag
                 /\ Cardinality(C25_SentTo(L)) = 3
                 /\ \A k \in C25_SentTo(L) :
                       L[k].fn \in {"login", "select_contract"}

\* ---------------------------------------------------------------------
\* C26: every request of the request layer carries each fixed header of
\* the client with its fixed value, whether the caller supplied headers or
\* not and also when the caller supplied the same name with another value;
\* the caller's headers of other names are sent unchanged.
C26_Requested == last.act = "request" /\ last.out.kind = "return"

C26_Fixed == Headers(IF last.fn = "raw_request" THEN "ideenergy" ELSE "globalomnium")

C26_Headers ==
    C26_Requested =>
        LET sent == last.out.data
        IN  /\ \A n \in DOMAIN C26_Fixed : n \in DOMAIN sent /\ sent[n] = C26_Fixed[n]
            /\ last.fn = "raw_request" =>
                  /\ sent["Content-Type"] = "application/json; charset=utf-8"
                  /\ sent["idioma"] = "es"
            /\ last.fn = "_request" => sent["User-Agent"] = "py-globalomnium/2023.12.1"
            /\ last.arg.supplied =>
                  \A n \in DOMAIN last.arg.headers \ DOMAIN C26_Fixed :
                      n \in DOMAIN sent /\ sent[n] = last.arg.headers[n]
            /\ DOMAIN sent \subseteq
                  DOMAIN C26_Fixed \cup {"Content-Type", "User-Agent", "X-Trace"}

\* the caller supplied Content-Type with another value and a header of its own
C26_Witness ==
    /\ C26_Requested
    /\ last.fn = "raw_request"
    /\ last.arg.supplied
    /\ DOMAIN last.arg.headers = {"Content-Type", "X-Trace"}
    /\ last.arg.headers["Content-Type"] = "x"
    /\ last.out.data["Content-Type"] = "application/json; charset=utf-8"
    /\ last.out.data["X-Trace"] = "y"

\* the caller supplied no headers
C26_NoHeadersWitness ==
    /\ C26_Requested
    /\ ~last.arg.supplied
    /\ last.out.data = C26_Fixed

\* ---------------------------------------------------------------------
\* C28: a login() that terminates with an exception, the rejected or
\* failed selection of the preconfigured contract included, leaves the
\* login timestamp as it was before the call: no timestamp was recorded
\* during the call.
C28_LoginFailed ==
    /\ last.op = "login" /\ last.done
    /\ last.out.kind = "raise"

C28_Recorded == \E k \in 1..Len(last.log) : last.log[k].ev = "login_ts"

C28_TimestampKept == C28_LoginFailed => ~C28_Recorded

\* what the code does: a failed login request or a failed selection
\* writes no timestamp, and the timestamp that login() recorded before it
\* awaited the selection stays; the nested login() of a zero timeout
\* records its own before the recursion ends
C28_AsCoded ==
    C28_LoginFailed =>
        /\ last.out.exc # "RecursionError" => login_ts = last.pre.ts
        /\ C28_Recorded => login_ts # NoLogin
        /\ ~C28_Recorded => last.fn = "login"

\* login() failed in the selection and the client reads as logged in
C28_LoggedInAfterFailure ==
    /\ C28_LoginFailed
    /\ last.fn = "select_contract"
    /\ last.out.exc = "InvalidContractError"
    /\ Len(last.log) = 4
    /\ IsLogged(login_ts, now, timeout)

\* ---------------------------------------------------------------------
\* C29: with a preconfigured contract and concurrent callers, no
\* authenticated operation sends its own request while a login() of
\* another caller has recorded its timestamp and still awaits the answer
\* to its contract selection.
C29_Selecting(p) ==
    \E i \in 1..Len(stack[p]) :
        /\ stack[p][i].fn = "login" /\ stack[p][i].at = "select"
        /\ i < Len(stack[p])
        /\ stack[p][Len(stack[p])].fn = "select_contract"

C29_OwnRequest(e) == IsRequest(e) /\ e.fn \notin {"login", "select_contract"}

C29_SelectionFirst ==
    \A k \in 1..Len(last.events) :
        C29_OwnRequest(last.events[k]) =>
            \A p \in Procs \ {last.proc} : ~C29_Selecting(p)

\* what the code does: the wrapper of the second caller reads is_logged
\* true as soon as the timestamp is recorded and lets its request go
C29_AsCoded ==
    (/\ last.act = "invoke" /\ last.op # "login"
     /\ \E p \in Procs \ {last.proc} : C29_Selecting(p)
     /\ last.pre.logged)
        => /\ Len(last.events) = 2
           /\ last.events[1].ev = "wrap" /\ last.events[1].flag = TRUE
           /\ C29_OwnRequest(last.events[2])

\* ---------------------------------------------------------------------
\* C30: is_icp_ready() returns true exactly when the icp field of the
\* response is "trueConectado", false for any other value of the field,
\* and raises InvalidData when the response has no icp field.
C30_Answered ==
    /\ last.act = "response" /\ last.fn = "is_icp_ready"
    /\ last.status = 200
    /\ last.body.kind = "dict"

C30_IcpReady ==
    C30_Answered =>
        IF last.body.icp = Absent
        THEN last.out.kind = "raise" /\ last.out.exc = "InvalidData"
        ELSE /\ last.out.kind = "return"
             /\ last.out.data = (last.body.icp = "trueConectado")

\* what the code does: a response without the field gives false
C30_AsCoded ==
    C30_Answered =>
        /\ last.out.kind = "return"
        /\ last.out.data = (last.body.icp = "trueConectado")
        /\ last.body.icp = Absent => last.out.data = FALSE

====
